---- MODULE Spec2Model ----
(***************************************************************************)
(* A10 Runner: the gate / loop-back state machine and the commit engine,   *)
(* in the variants of the service the repository holds:                    *)
(*   "v3.5"    src/unnamed/part_007   (gate with retry ceiling, no commit  *)
(*                                     retry)                              *)
(*   "v3.5.1"  src/server.js          (gate with retry ceiling,            *)
(*                                     commitWithRetry)                    *)
(*   "v3.5.6"  src/unnamed/part_003   (normalizePayload, crash-proof       *)
(*                                     forward, commitAtomic, diagnostics) *)
(* Strings are sequences of tokens; the empty string is <<>>.              *)
(***************************************************************************)
EXTENDS Integers, Sequences, FiniteSets, TLC

VARIABLES
    variant,     \* which variant of the service the process runs
    \* ---- gate / run ----
    startRetries,\* retries of the context the run's first gate request carried
    orch,        \* the orchestration context the next gate request carries
    req,         \* the gate request being handled: tester, quality, orchestration
    pc,          \* position of the gate handler
    fwds,        \* forwards issued by the current gate invocation, in order
    resp,        \* response of the current gate invocation
    gateCalls,   \* gate invocations of this run so far
    coderCalls,  \* forwards to the coder issued by loop-back in this run
    verdicts,    \* per gate invocation of the run: did the validation fail
    coderIn,     \* what the last coder invocation handed to the generator
    diagBuf,     \* the diagnostics ring buffer (v3.5.6, v3.5.9)
    recorded,    \* record calls stamped so far (the stamp of the last of them)
    chain,       \* the auto-chain: per request, the stages invoked, waiting and answered
    cuf,         \* createOrUpdateFile with main fallback: refs, calls and result
    inbound,     \* a request a caller sends to one stage, and what became of it
    race,        \* two runs committing to one path: the file, each run, the writes
    diagRead,    \* the last diagnostics read: who read, and the events returned
    trail,       \* the stages of one run in order, each with the context it saw
    \* ---- commit engine ----
    files,       \* the batch being committed: <<[path, content]>>
    store,       \* the remote store: path -> the file stored there, if any
    idx,         \* index of the file being committed (0 before the first)
    attempt,     \* attempt number for the current file (1-based)
    cpc,         \* position of the commit engine
    sha,         \* hash the lookup of the current attempt returned (Null = null)
    results,     \* commit outcomes pushed so far
    errors,      \* the failed outcomes pushed so far (v3.5.1)
    attempts,    \* per file of the batch: write attempts issued for it
    putLog,      \* the current file's write attempts: hash read, hash sent, status
    slept,       \* the current file's delays, in ms, in order
    faults,      \* store faults injected so far
    coderResp,   \* the response of the coder handler that committed the batch
    callLog,     \* the batch's store calls and recorded outcomes, in order
    gen,         \* what the external generator returned to this coder invocation
    cssCleanup,  \* deleteFileIfExists of styles.css: the file, the calls, the result
    \* ---- validators ----
    site,        \* the committed files the validators read: path -> file
    vreq,        \* the validators' request: checks, rules and what the LLM says
    testerOut,   \* the response of POST /run/tester
    qualityOut,  \* the response of POST /run/quality
    testerPrev,  \* the tester's response to the previous, identical request
    qualityPrev, \* the quality check's response to the previous, identical request
    rounds       \* validation rounds requested against the committed files

gateVars == <<startRetries, orch, req, pc, fwds, resp, gateCalls, coderCalls, verdicts, coderIn>>
commitVars == <<files, store, idx, attempt, cpc, sha, results, errors, attempts, putLog, slept,
                faults, coderResp, callLog, gen, cssCleanup>>
valVars == <<site, vreq, testerOut, qualityOut, testerPrev, qualityPrev, rounds, diagRead>>
sideVars == <<race, inbound, chain, cuf>>
vars == <<variant, diagBuf, recorded, trail, gateVars, commitVars, valVars, sideVars>>

\* ------------------------------------------------------------------ bounds
MaxGateCalls == 3
MaxRetriesValue == 2
MaxFiles == 2
MaxFaults == 3
MaxRuns == 2
MaxRecords == 5

\* ------------------------------------------------------------------ values
Variants == {"v3.5", "v3.5.1", "v3.5.6"}

\* JS undefined where a string is expected: a reserved token no string holds.
Undefined == <<"undefined">>

RECURSIVE JoinSeq(_, _)
\* Array.prototype.join: the elements separated by sep.
JoinSeq(ss, sep) ==
    IF Len(ss) = 0 THEN <<>>
    ELSE IF Len(ss) = 1 THEN ss[1]
    ELSE ss[1] \o sep \o JoinSeq(Tail(ss), sep)

Truthy(c) == c # <<>> /\ c # Undefined

\* x || ""
OrEmpty(x) == IF Truthy(x) THEN x ELSE <<>>

mergeFeedback(chunks) == JoinSeq(SelectSeq(chunks, Truthy), <<"\n\n">>)

\* the path of the i-th file of a batch: the scaffold's files, in the order
\* the generator lists them
PathOf(i) ==
    CASE i = 1 -> "index.html"
      [] i = 2 -> "style.css"
      [] i = 3 -> "script.js"
      [] OTHER -> "extra.txt"
Paths == {PathOf(i) : i \in 1..MaxFiles}

\* ------------------------------------------------------------ diagnostics
DIAG_MAX == 50
\* capacity of the v3.5.9 buffer
DIAG_MAX_359 == 100

\* a buffer that refuses the new event when it is full
diag_DropsNewest(buf, agent, level, message) ==
    IF Len(buf) >= DIAG_MAX THEN buf
    ELSE Append(buf, [agent |-> agent, level |-> level, message |-> message])

\* diag(agent, level, message): push, then shift when over capacity.
diag(buf, agent, level, message) ==
    LET b == Append(buf, [agent |-> agent, level |-> level, message |-> message])
    IN IF Len(b) > DIAG_MAX THEN Tail(b) ELSE b

\* diag of v3.5.9: the same ring with its own capacity
diag359(buf, agent, level, message) ==
    LET b == Append(buf, [agent |-> agent, level |-> level, message |-> message])
    IN IF Len(b) > DIAG_MAX_359 THEN Tail(b) ELSE b

\* ------------------------------------------------------- validator results
\* A tester result as the gate reads it. ok and result are "undefined" when
\* the field is absent; def = FALSE is a request with no tester at all.
TPass ==
    [def |-> TRUE, ok |-> "true", result |-> "passed", advice |-> <<>>,
     details |-> <<[id |-> "html_title", ok |-> TRUE, note |-> "index has <title>"]>>]
TFailMarker ==
    [def |-> TRUE, ok |-> "false", result |-> "failed", advice |-> <<>>,
     details |-> <<[id |-> "html_title", ok |-> FALSE, note |-> "missing marker"],
                   [id |-> "css_vars", ok |-> TRUE, note |-> "css has :root vars"]>>]
TFailAdvice ==
    [def |-> TRUE, ok |-> "false", result |-> "failed", advice |-> <<"add :root vars">>,
     details |-> <<[id |-> "css_vars", ok |-> FALSE, note |-> "css has :root vars"]>>]
TNone ==
    [def |-> FALSE, ok |-> "undefined", result |-> "undefined", advice |-> <<>>, details |-> <<>>]
TesterResults == {TPass, TFailMarker, TFailAdvice, TNone}

QPass ==
    [def |-> TRUE, ok |-> "true", status |-> "pass", findings |-> <<>>, review |-> <<>>]
QFail ==
    [def |-> TRUE, ok |-> "false", status |-> "fail",
     findings |-> << <<"Very long lines detected.">>, <<"Inline <style> detected.">> >>,
     review |-> <<"review text">>]
QNone ==
    [def |-> FALSE, ok |-> "undefined", status |-> "undefined", findings |-> <<>>, review |-> <<>>]
QualityResults == {QPass, QFail, QNone}

\* ------------------------------------------------------------ the context
\* The orchestration context as the architect builds it; feedback is absent
\* (Undefined) until a gate loop-back sets it.
Context(r, m, fb) ==
    [runId |-> "run_1", owner |-> "acme", repo |-> "site",
     coder_plan |-> <<"plan">>, retries |-> r, maxRetries |-> m, feedback |-> fb]

\* normalizePayload builds this orchestration when the request carries none.
DefaultOrchestration ==
    [runId |-> "run_now", owner |-> "", repo |-> "",
     coder_plan |-> <<>>, retries |-> 0, maxRetries |-> 2, feedback |-> Undefined]

\* a feedback text the caller's context already carries
EarlierFeedback == <<"TEST FAIL: ", "js_email", " - ", "script has email check">>

\* x || 2 on a number: 0 is falsy
OrTwo(m) == IF m = 0 THEN 2 ELSE m
\* x || 0 on a number
OrZero(r) == IF r = 0 THEN 0 ELSE r

\* ------------------------------------------------------------ forwarding
\* A JSON value handed to forward or read from a request body: env = TRUE is
\* an envelope {payload: body}, env = FALSE is the bare object body.
Bare(x) == [env |-> FALSE, body |-> x]
Envelope(x) == [env |-> TRUE, body |-> x]

\* The body forward puts on the wire. v3.5 sends its argument as it is;
\* v3.5.1 and v3.5.6 wrap a value that has no (truthy) payload field.
forwardBody(v, payload) ==
    IF v = "v3.5" THEN payload
    ELSE IF payload.env THEN payload ELSE Envelope(payload.body)

\* req.body?.payload || req.body, as the v3.5.1 stages read a request
Unwrap(b) == b.body

\* What the downstream stage did with a forward: answered ok:true, answered
\* ok:false, answered something that is not JSON, or could not be reached.
ForwardOutcomes == {"ok", "fail", "nonjson", "unreachable"}

\* the versions whose forward has a try/catch around the fetch
CatchesFetch(v) == v \in {"v3.5.6", "v3.5.9"}

\* What forward gives its caller: raised = TRUE when the rejected fetch
\* propagates; ok is the ok field of the value returned and error tells
\* whether the value has an error field. A reply that is not JSON becomes
\* {raw} in v3.5.1, {} in v3.5, {ok:false, raw} in v3.5.6 and, r.json()
\* raising inside the try, {ok:false, error} in v3.5.9.
forwardResult(v, out) ==
    CASE out = "ok" -> [raised |-> FALSE, ok |-> "true", error |-> FALSE]
      [] out = "fail" -> [raised |-> FALSE, ok |-> "false", error |-> FALSE]
      [] out = "nonjson" ->
            [raised |-> FALSE, ok |-> IF CatchesFetch(v) THEN "false" ELSE "undefined",
             error |-> v = "v3.5.9"]
      [] out = "unreachable" ->
            IF CatchesFetch(v) THEN [raised |-> FALSE, ok |-> "false", error |-> TRUE]
            ELSE [raised |-> TRUE, ok |-> "undefined", error |-> FALSE]

\* ------------------------------------------------------------------- gate
\* tester = p.tester || {ok:false, result:"unknown"} (v3.5.6 only)
gateTester(v, t) ==
    IF v = "v3.5.6" /\ ~t.def
    THEN [def |-> TRUE, ok |-> "false", result |-> "unknown", advice |-> <<>>, details |-> <<>>]
    ELSE t

gateQuality(v, q) ==
    IF v = "v3.5.6" /\ ~q.def
    THEN [def |-> TRUE, ok |-> "false", status |-> "unknown", findings |-> <<>>, review |-> <<>>]
    ELSE q

testerFail(v, t) ==
    LET x == gateTester(v, t) IN x.def /\ (x.result = "failed" \/ x.ok = "false")

qualityFail(v, q) ==
    LET x == gateQuality(v, q) IN x.def /\ (x.status = "fail" \/ x.ok = "false")

\* (tester?.details || []).map(d => !d.ok ? `TEST FAIL: ${d.id} — ${d.note}` : "").join("\n")
testFailLines(t) ==
    JoinSeq([i \in 1..Len(t.details) |->
                IF ~t.details[i].ok
                THEN <<"TEST FAIL: ", t.details[i].id, " - ", t.details[i].note>>
                ELSE <<>>],
            <<"\n">>)

\* (quality?.findings || []).map(f => `QUALITY FINDING: ${f}`).join("\n")
qualityLines(q) ==
    JoinSeq([i \in 1..Len(q.findings) |-> <<"QUALITY FINDING: ">> \o q.findings[i]],
            <<"\n">>)

\* the feedback the v3.5 / v3.5.1 gate builds from this iteration's results
gateFeedback(t, q) ==
    mergeFeedback(<<OrEmpty(t.advice), testFailLines(t), qualityLines(q), OrEmpty(q.review)>>)

\* (orchestration.retries || 0) >= (orchestration.maxRetries || 2)
retriesExhausted(o) == OrZero(o.retries) >= OrTwo(o.maxRetries)

\* the orchestration the gate works on; "none" when the request is rejected
gateOrchestration(v, r) ==
    IF r.hasOrch THEN r.orchestration
    ELSE IF v = "v3.5.6" THEN DefaultOrchestration
    ELSE r.orchestration

\* the state the gate moves to from EVALUATING
gateDecision(v, r) ==
    IF v # "v3.5.6" /\ ~r.hasOrch THEN "rejected"
    ELSE IF testerFail(v, r.tester) \/ qualityFail(v, r.quality)
         THEN IF v # "v3.5.6" /\ retriesExhausted(gateOrchestration(v, r))
              THEN "EXHAUSTED" ELSE "LOOPING"
         ELSE "PROCEEDING"

\* a loop-back that forgets to count the retry
nextContext_KeepsRetries(v, o, t, q) ==
    IF v = "v3.5.6" THEN o ELSE [o EXCEPT !.feedback = gateFeedback(t, q)]

\* next = {...orchestration, retries: (orchestration.retries || 0) + 1, feedback}
nextContext(v, o, t, q) ==
    IF v = "v3.5.6"
    THEN [o EXCEPT !.retries = OrZero(@) + 1]
    ELSE [o EXCEPT !.retries = OrZero(@) + 1, !.feedback = gateFeedback(t, q)]

\* what the gate hands to forward for the coder / the final stages
coderPayload(v, next) == IF v = "v3.5" THEN Envelope(next) ELSE Bare(next)

finalPayload(v, o) ==
    CASE v = "v3.5" -> Envelope(o)
      [] v = "v3.5.1" -> Bare(o)
      [] v = "v3.5.6" -> Bare([orchestration |-> o])

NoResp == [ok |-> "none", status |-> "none", code |-> 0]
NoReq == [tester |-> TNone, quality |-> QNone, hasOrch |-> FALSE,
          orchestration |-> DefaultOrchestration]
NoCoderIn == [called |-> FALSE, feedback |-> Undefined, retries |-> 0]

\* the verdict of one validation as the pipeline means it
Verdict(t, q) ==
    IF (t.def /\ (t.result = "failed" \/ t.ok = "false"))
       \/ (q.def /\ (q.status = "fail" \/ q.ok = "false")) THEN "fail"
    ELSE IF t.def /\ q.def THEN "pass"
    ELSE "absent"

\* ------------------------------------------------------------ coder stage
\* POST /run/coder answers 400 before any work when owner or repo is missing
\* (v3.5.1, v3.5.6; v3.5 has no such check).
coderRejects(v, body) ==
    v # "v3.5" /\ (Unwrap(body).owner = "" \/ Unwrap(body).repo = "")

\* The feedback the coder hands to the generator. v3.5 and v3.5.1 call
\* brain with input {coder_plan, feedback: p.feedback}; v3.5.6 reads the
\* request through normalizePayload, which keeps no feedback field, and calls
\* heuristicCoder(p.prd).
coderGeneratorFeedback(v, body) ==
    IF v = "v3.5.6" THEN Undefined ELSE Unwrap(body).feedback

\* The requests the gate is sent: every pair of results with an orchestration,
\* and two requests that carry none.
GateRequests ==
    {<<t, q, TRUE>> : t \in TesterResults, q \in QualityResults}
        \cup {<<TFailMarker, QPass, FALSE>>, <<TPass, QPass, FALSE>>}

\* -------------------------------------------------------------- validators
\* A committed file as the validators see it: absent, or present with the
\* marks the validators' patterns look for in it.
NoFile == [present |-> FALSE, marks |-> {}]
File(marks) == [present |-> TRUE, marks |-> marks]

NoOut == [code |-> 0, ok |-> "none", verdict |-> "none", details |-> <<>>, findings |-> <<>>]

\* the runs that commit to the same path and ref at the same time
Racers == {1, 2}

\* no two runs are committing to the same path
NoRace ==
    [entry |-> [exists |-> FALSE, content |-> <<>>],
     run |-> [r \in Racers |-> [pc |-> "idle", sha |-> <<>>, attempt |-> 0, ok |-> "none"]],
     writes |-> <<>>]

\* no request from outside is being followed
NoInbound ==
    [stage |-> "none", owner |-> "", repo |-> "", handled |-> FALSE, ok |-> "none",
     effects |-> <<>>]

\* the requests the auto-chain serves at the same time
ChainRuns == {1, 2}

\* no request has reached the auto-chain's architect
NoChain ==
    [r \in ChainRuns |->
        [stack |-> <<>>, invoked |-> <<>>, responded |-> <<>>, failedAt |-> "none"]]

\* createOrUpdateFile has not been called
NoCuf ==
    [pc |-> "idle", path |-> <<"index.html">>, branch |-> "main", ref |-> "main",
     hasFeature |-> FALSE, sha |-> <<>>,
     entry |-> [b \in {"main", "feature"} |-> [exists |-> FALSE, content |-> <<>>]],
     lookups |-> <<>>, writes |-> <<>>,
     result |-> [ok |-> "none", branch |-> "none", created |-> "none", updated |-> "none"]]

InitSideIdle ==
    /\ race = NoRace
    /\ inbound = NoInbound
    /\ chain = NoChain
    /\ cuf = NoCuf

\* no diagnostics have been read
NoRead == [by |-> "none", events |-> <<>>]

\* no validator has run
InitValIdle ==
    /\ site = [p \in {"index.html", "style.css", "script.js"} |-> NoFile]
    /\ vreq = [checks |-> <<>>, llm |-> "none", fault |-> FALSE]
    /\ testerOut = NoOut
    /\ qualityOut = NoOut
    /\ testerPrev = NoOut
    /\ qualityPrev = NoOut
    /\ rounds = 0
    /\ diagRead = NoRead

\* -------------------------------------------------------------- the run
InitGate ==
    /\ orch \in {Context(r, m, fb) : r \in 0..MaxRetriesValue, m \in 0..MaxRetriesValue,
                                     fb \in {Undefined, EarlierFeedback}}
    /\ startRetries = orch.retries
    /\ req = NoReq
    /\ pc = "idle"
    /\ fwds = <<>>
    /\ resp = NoResp
    /\ gateCalls = 0
    /\ coderCalls = 0
    /\ verdicts = <<>>
    /\ coderIn = NoCoderIn

\* POST /run/gate up to its first await (or its response).
GateReceive(t, q, h) ==
    /\ pc = "idle"
    /\ gateCalls < MaxGateCalls
    /\ gateCalls' = gateCalls + 1
    /\ verdicts' = Append(verdicts, Verdict(t, q))
    /\ coderCalls' = IF gateDecision(variant, [tester |-> t, quality |-> q, hasOrch |-> h,
                                               orchestration |-> orch]) = "LOOPING"
                     THEN coderCalls + 1 ELSE coderCalls
    /\ LET r == [tester |-> t, quality |-> q, hasOrch |-> h, orchestration |-> orch]
           d == gateDecision(variant, r)
           o == gateOrchestration(variant, r)
           next == nextContext(variant, o, gateTester(variant, t), gateQuality(variant, q))
       IN /\ req' = r
          /\ CASE d = "rejected" ->
                    /\ resp' = [ok |-> "false", status |-> "Missing orchestration", code |-> 400]
                    /\ pc' = "done"
                    /\ fwds' = <<>>
                    /\ diagBuf' = diagBuf
               [] d = "EXHAUSTED" ->
                    /\ resp' = [ok |-> "false", status |-> "gave_up", code |-> 200]
                    /\ pc' = "done"
                    /\ fwds' = <<>>
                    /\ diagBuf' = diagBuf
               [] d = "LOOPING" ->
                    /\ resp' = NoResp
                    /\ pc' = "await_coder"
                    /\ fwds' = <<[to |-> "/run/coder",
                                  sent |-> forwardBody(variant, coderPayload(variant, next))]>>
                    /\ diagBuf' = IF variant = "v3.5.6"
                                  THEN diag(diagBuf, "gate", "warn", "Gate loop to coder")
                                  ELSE diagBuf
               [] d = "PROCEEDING" ->
                    /\ resp' = NoResp
                    /\ pc' = "await_integrator"
                    /\ fwds' = <<[to |-> "/run/integrator",
                                  sent |-> forwardBody(variant, finalPayload(variant, o))]>>
                    /\ diagBuf' = diagBuf
    /\ UNCHANGED <<valVars, sideVars>>
    /\ UNCHANGED <<variant, recorded, trail, startRetries, orch, coderIn, commitVars>>

\* forward's own diagnostics: v3.5.6 records a failed POST.
forwardDiag(buf, v, path, out) ==
    IF v = "v3.5.6" /\ out = "unreachable"
    THEN diag(buf, "forward", "error", <<"POST failed", path>>)
    ELSE buf

\* The forward to the coder returns (or raises) and the gate answers.
CoderForwardReturns(out) ==
    /\ pc = "await_coder"
    /\ LET body == fwds[1].sent
           res == forwardResult(variant, out)
           delivered == out \in {"ok", "fail"}
           runs == delivered /\ ~coderRejects(variant, body)
       IN /\ coderRejects(variant, body) => out # "ok"
          /\ coderIn' = IF runs
                        THEN [called |-> TRUE,
                              feedback |-> coderGeneratorFeedback(variant, body),
                              retries |-> Unwrap(body).retries]
                        ELSE coderIn
          /\ diagBuf' =
                LET b == IF variant = "v3.5.6" /\ delivered /\ ~runs
                         THEN diag(diagBuf, "coder", "error", "Missing owner/repo")
                         ELSE diagBuf
                IN forwardDiag(b, variant, "/run/coder", out)
          /\ IF res.raised
             THEN pc' = "crashed" /\ resp' = NoResp
             ELSE /\ pc' = "done"
                  /\ resp' = [ok |-> "true", status |-> "looped_to_coder", code |-> 200]
    /\ UNCHANGED <<valVars, sideVars>>
    /\ UNCHANGED <<variant, recorded, trail, startRetries, orch, req, fwds, gateCalls, coderCalls, verdicts, commitVars>>

\* The forward to the integrator returns (or raises); the gate then forwards
\* to the supervisor.
IntegratorForwardReturns(out) ==
    /\ pc = "await_integrator"
    /\ LET res == forwardResult(variant, out)
           o == gateOrchestration(variant, req)
       IN /\ diagBuf' = forwardDiag(diagBuf, variant, "/run/integrator", out)
          /\ IF res.raised
             THEN pc' = "crashed" /\ fwds' = fwds
             ELSE /\ pc' = "await_supervisor"
                  /\ fwds' = Append(fwds, [to |-> "/run/supervisor",
                                 sent |-> forwardBody(variant, finalPayload(variant, o))])
    /\ UNCHANGED <<valVars, sideVars>>
    /\ UNCHANGED <<variant, recorded, trail, startRetries, orch, req, resp, gateCalls, coderCalls, verdicts, coderIn,
                   commitVars>>

\* The forward to the supervisor returns (or raises) and the gate answers.
SupervisorForwardReturns(out) ==
    /\ pc = "await_supervisor"
    /\ LET res == forwardResult(variant, out)
       IN /\ diagBuf' = forwardDiag(diagBuf, variant, "/run/supervisor", out)
          /\ IF res.raised
             THEN pc' = "crashed" /\ resp' = NoResp
             ELSE /\ pc' = "done"
                  /\ resp' = [ok |-> "true", status |-> "proceed", code |-> 200]
    /\ UNCHANGED <<valVars, sideVars>>
    /\ UNCHANGED <<variant, recorded, trail, startRetries, orch, req, fwds, gateCalls, coderCalls, verdicts, coderIn,
                   commitVars>>

\* The caller of the gate (the workflow that sent it a context) re-validates
\* and calls the gate again with the context the loop-back forwarded to the
\* coder.
NextValidation ==
    /\ pc = "done"
    /\ req.hasOrch
    /\ resp.status = "looped_to_coder"
    /\ orch' = Unwrap(fwds[1].sent)
    /\ pc' = "idle"
    /\ req' = NoReq
    /\ fwds' = <<>>
    /\ resp' = NoResp
    /\ UNCHANGED <<valVars, sideVars>>
    /\ UNCHANGED <<variant, recorded, trail, startRetries, gateCalls, coderCalls, verdicts, coderIn, diagBuf,
                   commitVars>>

\* the store: a file is absent, or holds a content whose hash names it
AbsentFile == [exists |-> FALSE, content |-> <<>>]
StoredFile(content) == [exists |-> TRUE, content |-> content]

\* the generator has not been asked
NoGen == [out |-> "none"]

\* deleteFileIfExists has not been called; entry is styles.css in the store
NoCleanup(entry) ==
    [entry |-> entry, pc |-> "idle", seen |-> entry, sha |-> <<>>, deletes |-> <<>>,
     ok |-> "none", deleted |-> "none"]

\* no batch is being committed
InitCommitIdle ==
    /\ files = <<>>
    /\ store = [p \in Paths |-> [exists |-> FALSE, content |-> <<>>]]
    /\ idx = 0
    /\ attempt = 0
    /\ cpc = "idle"
    /\ sha = <<>>
    /\ results = <<>>
    /\ errors = <<>>
    /\ attempts = <<>>
    /\ putLog = <<>>
    /\ slept = <<>>
    /\ faults = 0
    /\ coderResp = NoResp
    /\ callLog = <<>>
    /\ gen = NoGen
    /\ cssCleanup = NoCleanup(AbsentFile)

Init ==
    /\ variant \in Variants
    /\ diagBuf = <<>>
    /\ recorded = 0
    /\ trail = <<>>
    /\ InitGate
    /\ InitCommitIdle
    /\ InitValIdle
    /\ InitSideIdle

Next ==
    \/ \E r \in GateRequests : GateReceive(r[1], r[2], r[3])
    \/ \E out \in ForwardOutcomes : CoderForwardReturns(out)
    \/ \E out \in ForwardOutcomes : IntegratorForwardReturns(out)
    \/ \E out \in ForwardOutcomes : SupervisorForwardReturns(out)
    \/ NextValidation

Spec == Init /\ [][Next]_vars

\* ---------------------------------------------------------- commit engine
\* the versions whose commit engine is modelled
\* ("n8n" is the single-file backend of src/unnamed/part_008)
CommitVariants == Variants \cup {"v3.5.9", "n8n"}
\* the versions whose commit lets a failed store call raise to the handler
RaisesOnFailure(v) == v \in {"v3.5", "n8n"}
\* the versions that encode ensureString(content)
UsesEnsureString(v) == v \in {"v3.5.6", "v3.5.9"}

Tries == 3
BackoffBase == 400
SettleDelay == 250
Pacing == 120
\* sleep(300) after each file of a v3.5.9 batch
Pacing359 == 300

\* JS null / undefined where a hash is expected
Null == <<>>

\* A file content as the generator supplied it: a string, or no string at
\* all (an entry without content).
StringContent == [type |-> "string", text |-> <<"<html>">>]
MissingContent == [type |-> "undefined", text |-> <<>>]
Contents == {StringContent, MissingContent}

\* ensureString (v3.5.6): a string as it is, null / undefined as "", any
\* other value through JSON.stringify.
ensureString(c) ==
    CASE c.type = "string" -> c.text
      [] c.type = "undefined" -> <<>>
      [] OTHER -> <<"JSON:">> \o c.text

\* Buffer.from(x, "utf8") raises a TypeError unless x is a string; v3.5 and
\* v3.5.1 hand it the content as supplied, v3.5.6 goes through ensureString.
\* the content the handler hands to the commit: the n8n coder replaces a
\* missing content by a default page (p.content || "<html>...")
coderContent(v, c) ==
    IF v = "n8n" /\ c.type = "undefined"
    THEN [type |-> "string", text |-> <<"<html>default">>]
    ELSE c

encodeRaises(v, c) == ~UsesEnsureString(v) /\ coderContent(v, c).type # "string"

\* Buffer.from(x, "utf8").toString("base64")
toBase64(v, c) ==
    <<"base64:">> \o (IF UsesEnsureString(v) THEN ensureString(c) ELSE coderContent(v, c).text)

\* the hash the store reports for a file
ShaOf(entry) == IF entry.exists THEN <<"sha:">> \o entry.content ELSE Null

\* Status of PUT contents with the hash sent (Null when none is sent): 201
\* creates, 200 updates, 409 is a stale hash, 422 a missing one.
storePutStatus(entry, shaSent) ==
    IF ~entry.exists
    THEN IF shaSent = Null THEN 201 ELSE 409
    ELSE IF shaSent = ShaOf(entry) THEN 200
         ELSE IF shaSent = Null THEN 422 ELSE 409

\* what the environment does to one store call
GetOutcomes == {"ok", "error"}
PutFaults == {"none", "concurrent_write", "error"}

\* getFileShaOrNull: the hash, or null when the file is absent and also when
\* the lookup fails for any other reason.
getFileShaOrNull(entry, out) == IF out = "ok" THEN ShaOf(entry) ELSE Null

\* the n8n backend rethrows a lookup error that is not a 404
lookupRaises(v, out) == v = "n8n" /\ out = "error"

\* the batches the coder hands over: the first n scaffold files, at most one
\* of them without a string content
Batches ==
    UNION {
        {[i \in 1..n |-> [path |-> PathOf(i),
                          content |-> IF i = k THEN MissingContent ELSE StringContent]]
            : k \in 0..n}
        : n \in 1..MaxFiles}

\* The store a batch meets: empty, holding another content for the first
\* path, or holding the very content an earlier commit of the same file wrote.
InitCommit ==
    /\ files \in Batches
    /\ store \in {[p \in Paths |-> AbsentFile],
                  [p \in Paths |-> IF p = PathOf(1) THEN StoredFile(<<"old">>) ELSE AbsentFile],
                  [p \in Paths |-> IF p = PathOf(1)
                                   THEN StoredFile(toBase64(variant, StringContent))
                                   ELSE AbsentFile]}
    /\ idx = 0
    /\ attempt = 0
    /\ cpc = "next"
    /\ sha = Null
    /\ results = <<>>
    /\ errors = <<>>
    /\ attempts = <<>>
    /\ putLog = <<>>
    /\ slept = <<>>
    /\ faults = 0
    /\ coderResp = NoResp
    /\ callLog = <<>>
    /\ gen = NoGen
    /\ cssCleanup = NoCleanup(AbsentFile)

\* an outcome that reports every successful commit as a creation
Outcome_AlwaysCreated(v, path, ok, shaRead, status) ==
    [path |-> path, ok |-> ok, created |-> IF ok THEN "true" ELSE "undefined",
     updated |-> IF ok THEN "false" ELSE "undefined", status |-> status]

\* the outcome a commit returns
Outcome(v, path, ok, shaRead, status) ==
    IF ok
    THEN [path |-> path, ok |-> TRUE,
          created |-> IF UsesEnsureString(v) THEN "undefined"
                      ELSE IF shaRead = Null THEN "true" ELSE "false",
          updated |-> IF UsesEnsureString(v) THEN "undefined"
                      ELSE IF shaRead = Null THEN "false" ELSE "true",
          status |-> status]
    ELSE [path |-> path, ok |-> FALSE, created |-> "undefined", updated |-> "undefined",
          status |-> status]

\* does the engine try the file again after a failed write
retriesAfter(v, status, n) ==
    CASE v = "v3.5" -> FALSE
      [] v = "v3.5.1" -> n < Tries
      [] v = "v3.5.6" -> status = 409 /\ n < Tries
      [] v = "v3.5.9" -> FALSE
      [] v = "n8n" -> FALSE

\* an entry of the call log
Call(i, kind) == [file |-> i, kind |-> kind]

\* a loop that does not wait for the commit it started
loopAwaits_FireAndForget(c) == c \in {"next", "get", "put"}

\* const r = await commit(...): the loop body goes on to the next file only
\* when the commit of the current one has returned
loopAwaits(c) == c = "next"

\* commitMany / commitSequential takes the next file of the batch and encodes
\* its content.
BeginFile ==
    /\ loopAwaits(cpc)
    /\ idx < Len(files)
    /\ idx' = idx + 1
    /\ attempts' = Append(attempts, 0)
    /\ putLog' = <<>>
    /\ slept' = <<>>
    /\ sha' = Null
    /\ IF encodeRaises(variant, files[idx + 1].content)
       THEN cpc' = "raised" /\ attempt' = 0
       ELSE cpc' = (IF variant = "v3.5.9" THEN "preflight" ELSE "get") /\ attempt' = 1
    /\ UNCHANGED <<valVars, sideVars, gen, cssCleanup>>
    /\ UNCHANGED <<variant, recorded, trail, diagBuf, gateVars, files, store, results, errors, faults, coderResp,
                   callLog>>

\* preflightRepo (v3.5.9): the repository is looked up before the file is
\* touched; when the lookup fails the file's outcome is ok:false at once.
Preflight(out) ==
    /\ cpc = "preflight"
    /\ out = "error" => faults < MaxFaults
    /\ faults' = IF out = "error" THEN faults + 1 ELSE faults
    /\ IF out = "ok"
       THEN /\ cpc' = "get"
            /\ callLog' = Append(callLog, Call(idx, "read"))
            /\ UNCHANGED <<diagBuf, results, slept>>
       ELSE /\ diagBuf' = diag359(diagBuf, "github", "error", "Repo preflight failed")
            /\ results' = Append(results, Outcome(variant, files[idx].path, FALSE, Null, 0))
            /\ slept' = Append(slept, Pacing359)
            /\ callLog' = callLog \o <<Call(idx, "read"), Call(idx, "outcome")>>
            /\ cpc' = "next"
    /\ UNCHANGED <<valVars, sideVars, gen, cssCleanup>>
    /\ UNCHANGED <<variant, recorded, trail, gateVars, files, store, idx, attempt, sha, errors, attempts, putLog,
                   coderResp>>

\* the hash lookup of the current attempt
GetSha(out) ==
    /\ cpc = "get"
    /\ out = "error" => faults < MaxFaults
    /\ faults' = IF out = "error" THEN faults + 1 ELSE faults
    /\ sha' = getFileShaOrNull(store[files[idx].path], out)
    /\ diagBuf' = IF variant = "v3.5.6" /\ out = "error"
                  THEN diag(diagBuf, "github", "warn", "getFileShaOrNull")
                  ELSE diagBuf
    /\ cpc' = IF lookupRaises(variant, out) THEN "raised" ELSE "put"
    /\ callLog' = Append(callLog, Call(idx, IF out = "ok" THEN "read" ELSE "read_failed"))
    /\ UNCHANGED <<valVars, sideVars, gen, cssCleanup>>
    /\ UNCHANGED <<variant, recorded, trail, gateVars, files, store, idx, attempt, results, errors, attempts,
                   putLog, slept, coderResp>>

\* a wait that does not grow with the attempts
backoff_Constant(n) == BackoffBase

\* sleep(400 * (i + 1)) after failed attempt i + 1 (v3.5.6: sleep(400 * attempt))
backoff(n) == BackoffBase * n

\* a write that never carries the hash read
putSha_Omitted(h) == Null

\* ...(sha ? { sha } : {}): the write carries the hash read, when there is one
putSha(h) == h

\* the write of the current attempt and what the engine does with its result
PutFile(fault) ==
    /\ cpc = "put"
    /\ fault # "none" => faults < MaxFaults
    /\ faults' = IF fault # "none" THEN faults + 1 ELSE faults
    /\ LET path == files[idx].path
           body == toBase64(variant, files[idx].content)
           \* a concurrent writer commits to the path before this write arrives
           seen == IF fault = "concurrent_write"
                   THEN StoredFile(<<"other", faults>>) ELSE store[path]
           status == IF fault = "error" THEN 500 ELSE storePutStatus(seen, putSha(sha))
           ok == status \in {200, 201}
           again == ~ok /\ retriesAfter(variant, status, attempt)
           r == Outcome(variant, path, ok, sha, status)
       IN /\ store' = [store EXCEPT ![path] = IF ok THEN StoredFile(body) ELSE seen]
          /\ attempts' = [attempts EXCEPT ![idx] = @ + 1]
          /\ putLog' = Append(putLog, [shaRead |-> sha, shaSent |-> putSha(sha),
                                       status |-> status])
          /\ callLog' = IF ok \/ (~again /\ ~RaisesOnFailure(variant) /\ variant # "v3.5.9")
                        THEN callLog \o <<Call(idx, "write"), Call(idx, "outcome")>>
                        ELSE Append(callLog, Call(idx, "write"))
          /\ IF ok
             THEN /\ results' = Append(results, r)
                  /\ errors' = errors
                  /\ slept' = CASE variant = "v3.5.6" -> Append(slept, SettleDelay)
                                [] variant = "v3.5.1" -> Append(slept, Pacing)
                                [] variant = "v3.5.9" -> Append(slept, Pacing359)
                                [] OTHER -> slept
                  /\ cpc' = "next"
                  /\ attempt' = attempt
                  /\ diagBuf' = IF variant = "v3.5.9"
                                THEN diag359(diagBuf, "github", "info", "Octokit commit OK")
                                ELSE diagBuf
             ELSE IF again
             THEN /\ results' = results
                  /\ errors' = errors
                  /\ slept' = Append(slept, backoff(attempt))
                  /\ cpc' = "get"
                  /\ attempt' = attempt + 1
                  /\ diagBuf' = IF variant = "v3.5.6"
                                THEN diag(diagBuf, "github", "warn", "Conflict, retrying")
                                ELSE diagBuf
             ELSE IF RaisesOnFailure(variant)
             THEN /\ results' = results
                  /\ errors' = errors
                  /\ slept' = slept
                  /\ cpc' = "raised"
                  /\ attempt' = attempt
                  /\ diagBuf' = diagBuf
             ELSE IF variant = "v3.5.9"
             THEN /\ results' = results
                  /\ errors' = errors
                  /\ slept' = slept
                  /\ cpc' = "fallback"
                  /\ attempt' = attempt
                  /\ diagBuf' = diag359(diagBuf, "github", "warn", "Octokit failed, trying fallback")
             ELSE /\ results' = Append(results, r)
                  /\ errors' = IF variant = "v3.5.1" THEN Append(errors, r) ELSE errors
                  /\ slept' = IF variant = "v3.5.1" THEN Append(slept, Pacing) ELSE slept
                  /\ cpc' = "next"
                  /\ attempt' = attempt
                  /\ diagBuf' = IF variant = "v3.5.6"
                                THEN diag(diagBuf, "github", "error", "Commit failed")
                                ELSE diagBuf
    /\ UNCHANGED <<valVars, sideVars, gen, cssCleanup>>
    /\ UNCHANGED <<variant, recorded, trail, gateVars, files, idx, sha, coderResp>>

\* the fallback of v3.5.9: a direct PUT of the same content that carries no
\* hash, whatever the lookup returned
FallbackFaults == {"none", "error"}

FallbackPut(fault) ==
    /\ cpc = "fallback"
    /\ fault # "none" => faults < MaxFaults
    /\ faults' = IF fault # "none" THEN faults + 1 ELSE faults
    /\ LET path == files[idx].path
           body == toBase64(variant, files[idx].content)
           status == IF fault = "error" THEN 0 ELSE storePutStatus(store[path], Null)
           ok == status \in {200, 201}
       IN /\ store' = [store EXCEPT ![path] = IF ok THEN StoredFile(body) ELSE @]
          /\ attempts' = [attempts EXCEPT ![idx] = @ + 1]
          /\ putLog' = Append(putLog, [shaRead |-> sha, shaSent |-> Null, status |-> status])
          /\ results' = Append(results, Outcome(variant, path, ok, sha, status))
          /\ slept' = Append(slept, Pacing359)
          /\ callLog' = callLog \o <<Call(idx, "write"), Call(idx, "outcome")>>
          /\ diagBuf' = diag359(diagBuf, "github", IF ok THEN "info" ELSE "error",
                                IF ok THEN "Fallback PUT success"
                                ELSE IF fault = "error" THEN "Fallback network error"
                                ELSE "Fallback PUT failed")
          /\ cpc' = "next"
    /\ UNCHANGED <<valVars, sideVars, gen, cssCleanup>>
    /\ UNCHANGED <<variant, recorded, trail, gateVars, files, idx, attempt, sha, errors, coderResp>>

\* every file has its outcome: the batch returns its results
FinishBatch ==
    /\ cpc = "next"
    /\ idx = Len(files)
    /\ cpc' = "returned"
    /\ UNCHANGED <<valVars, sideVars, gen, cssCleanup>>
    /\ UNCHANGED <<variant, recorded, trail, diagBuf, gateVars, files, store, idx, attempt, sha, results, errors,
                   attempts, putLog, slept, faults, coderResp, callLog>>

\* forward's diagnostics in the coder: v3.5.6 records a failed POST, v3.5.9
\* also a reply that is not JSON
coderForwardDiag(buf, v, path, out) ==
    CASE v = "v3.5.6" /\ out = "unreachable" ->
            diag(buf, "forward", "error", <<"POST failed", path>>)
      [] v = "v3.5.9" /\ out \in {"unreachable", "nonjson"} ->
            diag359(buf, "forward", "error", <<"Forward failed", path>>)
      [] OTHER -> buf

\* JS a && b on values that are true, false or undefined
JsAnd(a, b) == IF a = "true" THEN b ELSE a

NotOk(r) == ~r.ok
AllOk(rs) == \A i \in 1..Len(rs) : rs[i].ok

\* the ok the coder reports once the batch and the two validator forwards
\* have returned
coderAggregate(v, rs, es, t, q) ==
    CASE v = "v3.5" -> "true"
      [] v = "v3.5.1" -> IF es = <<>> /\ t.ok = "true" THEN "true" ELSE "false"
      [] v = "v3.5.6" -> IF AllOk(rs) THEN JsAnd(t.ok, q.ok) ELSE "false"
      [] v = "v3.5.9" -> "true"
      [] v = "n8n" -> "true"

\* a coder that starts the batch and goes on without waiting for it
batchAwaited_NotAwaited(c) == c \in {"next", "returned", "raised"}

\* const results = await commitMany(...) / commitSequential(...): the handler
\* goes on only when the batch has returned or raised
batchAwaited(c) == c \in {"returned", "raised"}

\* The forwards of the coder to the validators, as calls in the order the
\* handler issues and awaits them. v3.5 and v3.5.1 start both and await
\* Promise.all, which rejects as soon as one forward raises; v3.5.6 and
\* v3.5.9 await the tester before they call the quality check; the n8n coder
\* forwards nothing.
validatorCalls(v, t, q) ==
    CASE v \in {"v3.5", "v3.5.1"} ->
            <<Call(0, "tester_invoked"), Call(0, "quality_invoked")>>
            \o (IF t.raised \/ q.raised THEN <<>>
                ELSE <<Call(0, "tester_returned"), Call(0, "quality_returned")>>)
      [] v \in {"v3.5.6", "v3.5.9"} ->
            <<Call(0, "tester_invoked"), Call(0, "tester_returned"),
              Call(0, "quality_invoked"), Call(0, "quality_returned")>>
      [] OTHER -> <<>>

\* POST /run/coder after the batch: it forwards to the tester and to the
\* quality check and responds; an error raised by the batch or by a forward
\* is caught by the handler's try/catch (v3.5, v3.5.1, v3.5.6).
CoderResponds(tOut, qOut) ==
    /\ batchAwaited(cpc)
    /\ (cpc = "raised" \/ variant = "n8n") => (tOut = "ok" /\ qOut = "ok")
    /\ LET t == forwardResult(variant, tOut)
           q == forwardResult(variant, qOut)
           threw == cpc = "raised" \/ t.raised \/ q.raised
           d1 == IF cpc = "raised" THEN diagBuf
                 ELSE coderForwardDiag(coderForwardDiag(diagBuf, variant, "/run/tester", tOut),
                                       variant, "/run/quality", qOut)
       IN /\ coderResp' =
                IF threw
                THEN [ok |-> "false", status |-> "error", code |-> 500]
                ELSE [ok |-> coderAggregate(variant, results, errors, t, q),
                      status |-> "coder", code |-> 200]
          /\ diagBuf' = IF threw /\ variant = "v3.5.6"
                        THEN diag(d1, "coder", "error", "Unhandled") ELSE d1
          /\ callLog' = callLog
                         \o (IF cpc = "raised" THEN <<>> ELSE validatorCalls(variant, t, q))
                         \o <<Call(0, "responded")>>
    /\ cpc' = IF cpc = "raised" THEN "responded_error" ELSE "responded"
    /\ UNCHANGED <<valVars, sideVars, gen, cssCleanup>>
    /\ UNCHANGED <<variant, recorded, trail, gateVars, files, store, idx, attempt, sha, results, errors, attempts,
                   putLog, slept, faults>>

\* ------------------------------------------------------- the generator
\* What the external generator does to a coder request (v3.5.1 brain):
\* without an API key it is not asked; the POST fails in transport; the reply
\* or its message content is not JSON; the content is {}, has an empty files
\* array, is the JSON value null, has a file entry without content, or is a
\* usable files array.
GeneratorOutcomes ==
    {"no_key", "transport_error", "unparsable", "empty_object", "files_empty", "null_value",
     "entry_no_content", "usable"}

\* heuristicBrain({role: "coder"}).files: the deterministic scaffold
DefaultFiles == [i \in 1..MaxFiles |-> [path |-> PathOf(i), content |-> StringContent]]

WellFormed(fs) == fs # <<>> /\ \A i \in 1..Len(fs) : fs[i].content.type = "string"

\* brain({role: "coder"}): the heuristic scaffold without a key and when the
\* fetch or a parse raises, otherwise JSON.parse of the content as it is.
\* files is <<>> where the value has no files or an empty array.
brain(out, batch) ==
    CASE out \in {"no_key", "transport_error", "unparsable"} ->
            [null |-> FALSE, files |-> DefaultFiles]
      [] out \in {"empty_object", "files_empty"} -> [null |-> FALSE, files |-> <<>>]
      [] out = "null_value" -> [null |-> TRUE, files |-> <<>>]
      [] OTHER -> [null |-> FALSE, files |-> batch]

\* coder.files && coder.files.length ? coder.files : defaultFiles
coderFiles(coder) == IF coder.files # <<>> THEN coder.files ELSE DefaultFiles

\* POST /run/coder up to the batch: it asks the generator and chooses the
\* files. Reading coder.files of null raises a TypeError, which the
\* handler's catch answers with 500.
Generate(out, batch) ==
    /\ cpc = "generate"
    /\ CASE out = "usable" -> WellFormed(batch)
         [] out = "entry_no_content" -> ~WellFormed(batch)
         [] OTHER -> batch = DefaultFiles
    /\ gen' = [out |-> out]
    /\ IF brain(out, batch).null
       THEN /\ cpc' = "raised"
            /\ UNCHANGED files
       ELSE /\ cpc' = "cleanup"
            /\ files' = coderFiles(brain(out, batch))
    /\ UNCHANGED <<valVars, sideVars, cssCleanup>>
    /\ UNCHANGED <<variant, recorded, trail, diagBuf, gateVars, store, idx, attempt, sha, results, errors,
                   attempts, putLog, slept, faults, coderResp, callLog>>

\* ------------------------------------------------- deleteFileIfExists
\* a cleanup that deletes without looking at the hash it read
deleteNeeded_Always(h) == TRUE

\* if (!sha) return { ok: true, deleted: false }: the delete is issued only
\* with a hash
deleteNeeded(h) == h # Null

\* status of DELETE contents with the hash sent: 200 when the hash names the
\* stored file, 404 when there is no file, 409 for a stale hash
storeDeleteStatus(entry, shaSent) ==
    IF ~entry.exists THEN 404
    ELSE IF shaSent = ShaOf(entry) THEN 200 ELSE 409

\* deleteFileIfExists, first half: the hash lookup, and the return without
\* a delete when it gave no hash
CleanupLookup(out) ==
    /\ cpc = "cleanup"
    /\ cssCleanup.pc = "idle"
    /\ LET h == getFileShaOrNull(cssCleanup.entry, out)
       IN IF deleteNeeded(h)
          THEN /\ cssCleanup' = [cssCleanup EXCEPT !.pc = "delete", !.sha = h,
                                                   !.seen = cssCleanup.entry]
               /\ cpc' = cpc
          ELSE /\ cssCleanup' = [cssCleanup EXCEPT !.pc = "done", !.sha = h,
                                                   !.seen = cssCleanup.entry,
                                                   !.ok = "true", !.deleted = "false"]
               /\ cpc' = "next"
    /\ UNCHANGED <<valVars, sideVars>>
    /\ UNCHANGED <<variant, recorded, trail, diagBuf, gateVars, files, store, idx, attempt, sha,
                   results, errors, attempts, putLog, slept, faults, coderResp, callLog, gen>>

\* deleteFileIfExists, second half: octokit.repos.deleteFile with the hash
\* read; a rejected delete is caught and returned as ok:false. Another
\* writer may have replaced the file since the lookup.
CleanupDelete(fault) ==
    /\ cpc = "cleanup"
    /\ cssCleanup.pc = "delete"
    /\ LET current == IF fault = "concurrent_write" THEN StoredFile(<<"other">>)
                      ELSE cssCleanup.entry
           status == IF fault = "error" THEN 500
                     ELSE storeDeleteStatus(current, cssCleanup.sha)
           accepted == status = 200
       IN cssCleanup' =
              [cssCleanup EXCEPT !.pc = "done",
                                 !.entry = IF accepted THEN AbsentFile ELSE current,
                                 !.deletes = Append(@, [shaSent |-> cssCleanup.sha,
                                                        status |-> status]),
                                 !.ok = IF accepted THEN "true" ELSE "false",
                                 !.deleted = IF accepted THEN "true" ELSE "false"]
    /\ cpc' = "next"
    /\ UNCHANGED <<valVars, sideVars>>
    /\ UNCHANGED <<variant, recorded, trail, diagBuf, gateVars, files, store, idx, attempt, sha,
                   results, errors, attempts, putLog, slept, faults, coderResp, callLog, gen>>

\* no gate request is in progress
InitGateIdle ==
    /\ orch = Context(0, 2, Undefined)
    /\ startRetries = 0
    /\ req = NoReq
    /\ pc = "idle"
    /\ fwds = <<>>
    /\ resp = NoResp
    /\ gateCalls = 0
    /\ coderCalls = 0
    /\ verdicts = <<>>
    /\ coderIn = NoCoderIn

InitCommitSpec ==
    /\ variant \in CommitVariants
    /\ diagBuf = <<>>
    /\ recorded = 0
    /\ trail = <<>>
    /\ InitGateIdle
    /\ InitCommit
    /\ InitValIdle
    /\ InitSideIdle
    \* the n8n coder commits the one file of its request
    /\ variant = "n8n" => Len(files) = 1

NextCommit ==
    \/ BeginFile
    \/ \E out \in GetOutcomes : GetSha(out)
    \/ \E fault \in PutFaults : PutFile(fault)
    \/ \E out \in GetOutcomes : Preflight(out)
    \/ \E fault \in FallbackFaults : FallbackPut(fault)
    \/ FinishBatch
    \/ \E tOut \in ForwardOutcomes, qOut \in ForwardOutcomes : CoderResponds(tOut, qOut)

SpecCommit == InitCommitSpec /\ [][NextCommit]_vars

\* the coder of v3.5.1 from its request to its response
InitGenerate ==
    /\ variant = "v3.5.1"
    /\ diagBuf = <<>>
    /\ recorded = 0
    /\ trail = <<>>
    /\ InitGateIdle
    /\ InitValIdle
    /\ InitSideIdle
    /\ files = <<>>
    /\ store \in {[p \in Paths |-> AbsentFile],
                  [p \in Paths |-> IF p = PathOf(1) THEN StoredFile(<<"old">>) ELSE AbsentFile]}
    /\ idx = 0
    /\ attempt = 0
    /\ cpc = "generate"
    /\ sha = Null
    /\ results = <<>>
    /\ errors = <<>>
    /\ attempts = <<>>
    /\ putLog = <<>>
    /\ slept = <<>>
    /\ faults = 0
    /\ coderResp = NoResp
    /\ callLog = <<>>
    /\ gen = NoGen
    /\ cssCleanup \in {NoCleanup(AbsentFile), NoCleanup(StoredFile(<<"legacy">>))}

NextGenerate ==
    \/ \E out \in GeneratorOutcomes, batch \in Batches : Generate(out, batch)
    \/ \E out \in GetOutcomes : CleanupLookup(out)
    \/ \E fault \in PutFaults : CleanupDelete(fault)
    \/ BeginFile
    \/ \E out \in GetOutcomes : GetSha(out)
    \/ \E fault \in PutFaults : PutFile(fault)
    \/ FinishBatch
    \/ \E tOut \in ForwardOutcomes, qOut \in ForwardOutcomes : CoderResponds(tOut, qOut)

SpecGenerate == InitGenerate /\ [][NextGenerate]_vars

\* --------------------------------------- two runs, one path, one ref
\* the versions whose commitOne retries
RaceVariants == {"v3.5.1", "v3.5.6"}

\* what run r commits
RaceBody(r) == <<"base64:", "run", r>>

\* commitOne is called in run r: attempt 1 begins
RaceStart(r) ==
    /\ race.run[r].pc = "idle"
    /\ race' = [race EXCEPT !.run[r].pc = "get", !.run[r].attempt = 1]
    /\ UNCHANGED <<variant, diagBuf, recorded, trail, gateVars, commitVars, valVars, inbound, chain, cuf>>

\* the hash lookup of run r's current attempt
RaceGet(r) ==
    /\ race.run[r].pc = "get"
    /\ race' = [race EXCEPT !.run[r].pc = "put",
                            !.run[r].sha = getFileShaOrNull(race.entry, "ok")]
    /\ UNCHANGED <<variant, diagBuf, recorded, trail, gateVars, commitVars, valVars, inbound, chain, cuf>>

\* the write of run r's current attempt, applied by the store to the file as
\* it is now, and what commitOne does with the result
RacePut(r) ==
    /\ race.run[r].pc = "put"
    /\ LET me == race.run[r]
           status == storePutStatus(race.entry, putSha(me.sha))
           ok == status \in {200, 201}
           again == ~ok /\ retriesAfter(variant, status, me.attempt)
           w == [run |-> r, shaSent |-> putSha(me.sha), current |-> ShaOf(race.entry),
                 status |-> status]
       IN /\ race' = [race EXCEPT
                         !.entry = IF ok THEN StoredFile(RaceBody(r)) ELSE @,
                         !.writes = Append(@, w),
                         !.run[r] = IF ok THEN [me EXCEPT !.pc = "done", !.ok = "true"]
                                    ELSE IF again
                                    THEN [me EXCEPT !.pc = "get", !.attempt = @ + 1]
                                    ELSE [me EXCEPT !.pc = "done", !.ok = "false"]]
          /\ diagBuf' = IF variant # "v3.5.6" \/ ok THEN diagBuf
                        ELSE IF again THEN diag(diagBuf, "github", "warn", "Conflict, retrying")
                        ELSE diag(diagBuf, "github", "error", "Commit failed")
    /\ UNCHANGED <<variant, recorded, trail, gateVars, commitVars, valVars, inbound, chain, cuf>>

\* two runs are about to commit to a path that is absent, holds an older
\* content, or holds what an earlier run of the first committed
InitRace ==
    /\ variant \in RaceVariants
    /\ diagBuf = <<>>
    /\ recorded = 0
    /\ trail = <<>>
    /\ InitGateIdle
    /\ InitCommitIdle
    /\ InitValIdle
    /\ inbound = NoInbound
    /\ chain = NoChain
    /\ cuf = NoCuf
    /\ race \in {[NoRace EXCEPT !.entry = e]
                     : e \in {AbsentFile, StoredFile(<<"old">>), StoredFile(RaceBody(1))}}

NextRace == \E r \in Racers : RaceStart(r) \/ RaceGet(r) \/ RacePut(r)

SpecRace == InitRace /\ [][NextRace]_vars

\* ------------------------------------------- the context along a run
\* the versions whose stages are followed from the architect on
RunVariants == {"v3.5.1", "v3.5.6", "v3.5.9"}

\* an absent numeric field (JS undefined where a number is expected)
NoNumber == 0 - 1

\* `run_${Date.now()}` as evaluated by a stage
FreshRunId(stage) == <<"run_", stage>>

\* The request the architect is sent: the caller may supply a runId, retries
\* and maxRetries of its own.
Inbounds ==
    [runId : {Undefined, <<"caller_run">>},
     retries : {NoNumber} \cup 0..MaxRetriesValue,
     maxRetries : {NoNumber} \cup 0..MaxRetriesValue]

\* a context with every field
RunContext(id, r, m) ==
    [runId |-> id, owner |-> "acme", repo |-> "site", branch |-> "main",
     coder_plan |-> <<"plan">>, tester_plan |-> <<"tests">>, quality_rules |-> <<"rules">>,
     retries |-> r, maxRetries |-> m, feedback |-> Undefined]

\* x || y
Or(x, absent, y) == IF x = absent THEN y ELSE x

\* normalizePayload of v3.5.6 applied to a context: runId, retries and
\* maxRetries get defaults, the plans are kept, feedback is not a field of
\* the result.
normalizePayload356(c, stage) ==
    [c EXCEPT !.runId = Or(@, Undefined, FreshRunId(stage)),
              !.coder_plan = Or(@, Undefined, <<>>),
              !.tester_plan = Or(@, Undefined, <<>>),
              !.quality_rules = Or(@, Undefined, <<>>),
              !.retries = Or(@, NoNumber, 0),
              !.maxRetries = Or(@, NoNumber, 2),
              !.feedback = Undefined]

\* normalizePayload of v3.5.9: only owner, repo and branch of the context
\* are fields of the result.
normalizePayload359(c) ==
    [c EXCEPT !.runId = Undefined,
              !.coder_plan = Undefined,
              !.tester_plan = Undefined,
              !.quality_rules = Undefined,
              !.retries = NoNumber,
              !.maxRetries = NoNumber,
              !.feedback = Undefined]

\* the context the architect creates and forwards to the coder
architectContext(v, inb) ==
    CASE v = "v3.5.1" -> RunContext(FreshRunId("architect"), 0, 2)
      [] v = "v3.5.6" ->
            RunContext(Or(inb.runId, Undefined, FreshRunId("architect")), 0,
                       Or(inb.maxRetries, NoNumber, 2))
      [] v = "v3.5.9" ->
            [normalizePayload359(RunContext(Undefined, NoNumber, NoNumber))
                EXCEPT !.runId = FreshRunId("architect")]

\* what a stage reads from the context it is sent
stageView(v, c, stage) ==
    CASE v = "v3.5.1" -> c
      [] v = "v3.5.6" -> normalizePayload356(c, stage)
      [] v = "v3.5.9" -> normalizePayload359(c)

\* what the coder forwards to the tester and to the quality check: v3.5.1
\* builds `common`, v3.5.6 and v3.5.9 forward the payload they normalized
validatorPayload(v, p) ==
    IF v = "v3.5.1"
    THEN [p EXCEPT !.runId = Or(@, Undefined, FreshRunId("coder")),
                   !.retries = Or(@, NoNumber, 0),
                   !.maxRetries = IF @ \in {NoNumber, 0} THEN 2 ELSE @,
                   !.coder_plan = Undefined,
                   !.tester_plan = Undefined,
                   !.quality_rules = Undefined,
                   !.feedback = Undefined]
    ELSE p

\* a gate that rebuilds the context it loops back with
loopContext_Rebuilds(v, o, t, q) ==
    [nextContext("v3.5.1", o, t, q) EXCEPT !.coder_plan = <<>>]

\* the context the gate forwards to the coder on a failed validation:
\* {...orchestration, retries + 1, feedback} in v3.5.1, {...orchestration,
\* retries + 1} in v3.5.6, the orchestration as it came in v3.5.9
loopContext(v, o, t, q) == IF v = "v3.5.9" THEN o ELSE nextContext(v, o, t, q)

Stage(stage, c) == [stage |-> stage, ctx |-> c]
LastStage == trail[Len(trail)].stage
Loops == {i \in 1..Len(trail) : trail[i].stage = "gate_loop"}

\* the orchestration the caller posts to the gate: the one the architect
\* answered with, or the one the last loop-back forwarded
GateOrchestration ==
    IF Loops = {} THEN trail[1].ctx
    ELSE trail[CHOOSE i \in Loops : \A j \in Loops : j <= i].ctx

\* POST /run/architect
ArchitectRuns(inb) ==
    /\ trail = <<>>
    /\ trail' = <<Stage("architect", architectContext(variant, inb))>>
    /\ UNCHANGED <<variant, diagBuf, recorded, gateVars, commitVars, valVars, sideVars>>

\* POST /run/coder, forwarded by the architect or by the gate
CoderRuns ==
    /\ trail # <<>>
    /\ LastStage \in {"architect", "gate_loop"}
    /\ trail' = Append(trail, Stage("coder", stageView(variant, trail[Len(trail)].ctx, "coder")))
    /\ UNCHANGED <<variant, diagBuf, recorded, gateVars, commitVars, valVars, sideVars>>

\* POST /run/tester and POST /run/quality, forwarded by the coder
ValidatorsRun ==
    /\ trail # <<>>
    /\ LastStage = "coder"
    /\ LET sent == validatorPayload(variant, trail[Len(trail)].ctx)
       IN trail' = trail \o <<Stage("tester", stageView(variant, sent, "tester")),
                              Stage("quality", stageView(variant, sent, "quality"))>>
    /\ UNCHANGED <<variant, diagBuf, recorded, gateVars, commitVars, valVars, sideVars>>

\* POST /run/gate with the results and the orchestration
GateRuns(t, q) ==
    /\ trail # <<>>
    /\ LastStage = "quality"
    /\ Cardinality(Loops) < MaxGateCalls
    /\ LET o == GateOrchestration
           failed == testerFail(variant, t) \/ qualityFail(variant, q)
       IN trail' = trail \o <<Stage("gate", o)>> \o
              (IF failed
               THEN IF variant = "v3.5.1" /\ retriesExhausted(o)
                    THEN <<Stage("gave_up", o)>>
                    ELSE <<Stage("gate_loop", loopContext(variant, o, t, q))>>
               ELSE <<Stage("integrator", o), Stage("supervisor", o)>>)
    /\ UNCHANGED <<variant, diagBuf, recorded, gateVars, commitVars, valVars, sideVars>>

InitContext ==
    /\ variant \in RunVariants
    /\ diagBuf = <<>>
    /\ recorded = 0
    /\ trail = <<>>
    /\ InitGateIdle
    /\ InitCommitIdle
    /\ InitValIdle
    /\ InitSideIdle

NextContext ==
    \/ \E inb \in Inbounds : ArchitectRuns(inb)
    \/ CoderRuns
    \/ ValidatorsRun
    \/ \E t \in {TPass, TFailMarker}, q \in {QPass, QFail} : GateRuns(t, q)

SpecContext == InitContext /\ [][NextContext]_vars

\* ------------------------------------------------- rejected requests
\* the versions whose stages check their request before they work
RejectVariants == {"v3.5.1", "v3.5.6"}

\* the request as the stage reads it
InboundBody == [env |-> FALSE, body |-> [owner |-> inbound.owner, repo |-> inbound.repo]]

\* an architect that plans whatever the request holds
architectRejects_Never(v, body) == FALSE

\* POST /run/architect: if (!owner || !repo) return 400
architectRejects(v, body) == Unwrap(body).owner = "" \/ Unwrap(body).repo = ""

\* POST /run/architect from the request to the response: the 400 of a request
\* without owner or repo; otherwise the plan (asked of the generator by
\* v3.5.1), the context and the forward to the coder, whose failure v3.5.1
\* answers with 500.
ArchitectReceives(inb, out) ==
    /\ inbound.stage = "architect"
    /\ ~inbound.handled
    /\ trail = <<>>
    /\ IF architectRejects(variant, InboundBody)
       THEN /\ inbound' = [inbound EXCEPT !.handled = TRUE, !.ok = "false"]
            /\ trail' = trail
            /\ diagBuf' = IF variant = "v3.5.6"
                          THEN diag(diagBuf, "architect", "error", "Missing owner/repo")
                          ELSE diagBuf
       ELSE /\ inbound' = [inbound EXCEPT
                               !.handled = TRUE,
                               !.ok = IF forwardResult(variant, out).raised
                                      THEN "false" ELSE "true",
                               !.effects = IF variant = "v3.5.1"
                                           THEN <<"generator", "forward">>
                                           ELSE <<"forward">>]
            /\ trail' = <<Stage("architect", architectContext(variant, inb))>>
            /\ diagBuf' = forwardDiag(diagBuf, variant, "/run/coder", out)
    /\ UNCHANGED <<variant, recorded, gateVars, commitVars, valVars, race, chain, cuf>>

\* POST /run/coder up to its first call: the 400 of a request without owner
\* or repo; otherwise v3.5.1 goes on to ask the generator and v3.5.6 to
\* commit the files of its heuristic coder.
CoderReceives ==
    /\ inbound.stage = "coder"
    /\ ~inbound.handled
    /\ cpc = "idle"
    /\ IF coderRejects(variant, InboundBody)
       THEN /\ inbound' = [inbound EXCEPT !.handled = TRUE, !.ok = "false"]
            /\ coderResp' = [ok |-> "false", status |-> "Missing owner/repo", code |-> 400]
            /\ diagBuf' = IF variant = "v3.5.6"
                          THEN diag(diagBuf, "coder", "error", "Missing owner/repo")
                          ELSE diagBuf
            /\ UNCHANGED <<cpc, files>>
       ELSE /\ inbound' = [inbound EXCEPT !.handled = TRUE]
            /\ cpc' = IF variant = "v3.5.1" THEN "generate" ELSE "next"
            /\ files' = IF variant = "v3.5.1" THEN files ELSE DefaultFiles
            /\ UNCHANGED <<coderResp, diagBuf>>
    /\ UNCHANGED <<variant, recorded, trail, gateVars, valVars, race, chain, cuf, store, idx, attempt, sha,
                   results, errors, attempts, putLog, slept, faults, callLog, gen, cssCleanup>>

\* the requests a caller sends to the architect and to the coder, with and
\* without owner and repo, and the gate's requests
InboundRequests ==
    {[NoInbound EXCEPT !.stage = st, !.owner = o, !.repo = r]
        : st \in {"architect", "coder"}, o \in {"", "acme"}, r \in {"", "site"}}
    \cup {[NoInbound EXCEPT !.stage = "gate", !.owner = "acme", !.repo = "site"]}

InitReject ==
    /\ variant \in RejectVariants
    /\ diagBuf = <<>>
    /\ recorded = 0
    /\ trail = <<>>
    /\ inbound \in InboundRequests
    /\ IF inbound.stage = "gate" THEN InitGate ELSE InitGateIdle
    /\ InitCommitIdle
    /\ InitValIdle
    /\ race = NoRace
    /\ chain = NoChain
    /\ cuf = NoCuf

NextReject ==
    \/ inbound.stage = "gate" /\ Next
    \/ inbound.stage = "coder" /\ (CoderReceives \/ NextGenerate)
    \/ /\ inbound.stage = "architect"
       /\ \/ \E inb \in Inbounds, out \in ForwardOutcomes : ArchitectReceives(inb, out)
          \/ CoderRuns
          \/ ValidatorsRun
          \/ \E t \in {TPass, TFailMarker}, q \in {QPass, QFail} : GateRuns(t, q)

SpecReject == InitReject /\ [][NextReject]_vars

\* ------------------------------------------------------ the auto-chain
\* Architect -> Coder -> Tester -> Quality -> Integrator -> Supervisor
ChainOrder == <<"architect", "coder", "tester", "quality", "integrator", "supervisor">>

StageIndex(st) == CHOOSE i \in 1..Len(ChainOrder) : ChainOrder[i] = st

\* where a handler stands when it is invoked: the coder commits first, the
\* supervisor answers at once, the others forward
FirstStep(st) ==
    CASE st = "coder" -> "commit"
      [] st = "supervisor" -> "respond"
      [] OTHER -> "forward"

Frame(st, step) == [stage |-> st, pc |-> step]

\* the handler on top of the stack of request r, and the stack with that
\* handler moved to another step
Top(r) == chain[r].stack[Len(chain[r].stack)]
WithTop(r, step) ==
    [chain[r].stack EXCEPT ![Len(chain[r].stack)] = Frame(Top(r).stage, step)]

\* the stack after its top handler has answered: the caller, if any, has the
\* forwarded reply and answers next
Popped(r) ==
    LET st == chain[r].stack
    IN IF Len(st) = 1 THEN <<>>
       ELSE [SubSeq(st, 1, Len(st) - 1) EXCEPT ![Len(st) - 1] = Frame(st[Len(st) - 1].stage,
                                                                      "respond")]

\* POST /run/architect: 400 when task, owner or repo is missing, otherwise
\* the architect builds its response and forwards to the coder
ChainArchitect(r, complete) ==
    /\ chain[r].invoked = <<>>
    /\ chain' = [chain EXCEPT
                    ![r].invoked = <<"architect">>,
                    ![r].stack = IF complete THEN <<Frame("architect", "forward")>> ELSE <<>>,
                    ![r].responded = IF complete THEN <<>>
                                     ELSE <<[stage |-> "architect", ok |-> "false"]>>]
    /\ UNCHANGED <<variant, diagBuf, recorded, trail, gateVars, commitVars, valVars, race,
                   inbound, cuf>>

\* the coder's createOrUpdateFile: when the lookup or the write raises, the
\* handler's catch answers 500 and nothing is forwarded
ChainCommit(r, out) ==
    /\ chain[r].stack # <<>>
    /\ Top(r).pc = "commit"
    /\ chain' = IF out = "ok"
                THEN [chain EXCEPT ![r].stack = WithTop(r, "forward")]
                ELSE [chain EXCEPT
                         ![r].stack = Popped(r),
                         ![r].responded = Append(@, [stage |-> Top(r).stage, ok |-> "false"])]
    /\ UNCHANGED <<variant, diagBuf, recorded, trail, gateVars, commitVars, valVars, race,
                   inbound, cuf>>

\* safeForward to the next stage: the request reaches its handler, or the
\* fetch raises and safeForward returns {ok:false, error}
ChainForward(r, out) ==
    /\ chain[r].stack # <<>>
    /\ Top(r).pc = "forward"
    /\ LET next == ChainOrder[StageIndex(Top(r).stage) + 1]
       IN chain' = IF out = "delivered"
                   THEN [chain EXCEPT
                            ![r].stack = Append(WithTop(r, "await"),
                                                Frame(next, FirstStep(next))),
                            ![r].invoked = Append(@, next)]
                   ELSE [chain EXCEPT
                            ![r].stack = WithTop(r, "respond"),
                            ![r].failedAt = Top(r).stage]
    /\ UNCHANGED <<variant, diagBuf, recorded, trail, gateVars, commitVars, valVars, race,
                   inbound, cuf>>

\* res.json(response): the handler answers ok:true with what safeForward gave
ChainRespond(r) ==
    /\ chain[r].stack # <<>>
    /\ Top(r).pc = "respond"
    /\ chain' = [chain EXCEPT
                    ![r].stack = Popped(r),
                    ![r].responded = Append(@, [stage |-> Top(r).stage, ok |-> "true"])]
    /\ UNCHANGED <<variant, diagBuf, recorded, trail, gateVars, commitVars, valVars, race,
                   inbound, cuf>>

InitChain ==
    /\ variant = "auto-chain"
    /\ diagBuf = <<>>
    /\ recorded = 0
    /\ trail = <<>>
    /\ InitGateIdle
    /\ InitCommitIdle
    /\ InitValIdle
    /\ InitSideIdle

NextChain ==
    \E r \in ChainRuns :
        \/ \E complete \in BOOLEAN : ChainArchitect(r, complete)
        \/ \E out \in {"ok", "store_error"} : ChainCommit(r, out)
        \/ \E out \in {"delivered", "unreachable"} : ChainForward(r, out)
        \/ ChainRespond(r)

SpecChain == InitChain /\ [][NextChain]_vars

\* ------------------------- createOrUpdateFile with fallback to main
\* (the n8n backend in the second half of src/unnamed/part_002)
CufBranches == {"main", "feature"}

\* the paths a caller asks for, as the words of the path
CufPaths == {<<"index.html">>, <<"notes/", "ref.md">>}

\* branch || "main"
OrMain(b) == IF b = "" THEN "main" ELSE b

\* the text of the errors the store raises on a write, as lower-case words:
\* a branch that does not exist, a stale hash, a missing hash, a failure of
\* the service
WriteErrorMessage(kind, path, ref) ==
    CASE kind = "branch_not_found" -> <<"branch", ref, "not", "found">>
      [] kind = "conflict" -> path \o <<"does", "not", "match", "sha">>
      [] kind = "missing_sha" -> <<"invalid", "request", "sha", "wasn't", "supplied">>
      [] OTHER -> <<"server", "error">>

\* whether a word of a message contains the letters frag
HasFragment(word, frag) ==
    CASE frag = "branch" -> word = "branch"
      [] frag = "not" -> word \in {"not", "notes/"}
      [] frag = "no" -> word \in {"not", "notes/"}
      [] frag = "found" -> word = "found"
      [] frag = "ref" -> word = "ref.md"
      [] OTHER -> FALSE

\* /branch.*not.*found|no.*ref/i.test(msg)
branchMissing(msg) ==
    \/ \E i, j, k \in 1..Len(msg) :
           /\ i < j /\ j < k
           /\ HasFragment(msg[i], "branch")
           /\ HasFragment(msg[j], "not")
           /\ HasFragment(msg[k], "found")
    \/ \E i, j \in 1..Len(msg) :
           /\ i < j
           /\ HasFragment(msg[i], "no")
           /\ HasFragment(msg[j], "ref")

\* tryMainFallback && ref !== "main" && the message test
fallsBack(ref, msg) == ref # "main" /\ branchMissing(msg)

\* whether the repository has the ref
RefExists(ref) == ref = "main" \/ cuf.hasFeature

\* POST /run/coder calls createOrUpdateFile({..., branch, tryMainFallback:
\* true}) with branch = p.branch || "main"; ref = branch || "main"
CufCall(path, b) ==
    /\ cuf.pc = "idle"
    /\ cuf' = [cuf EXCEPT !.pc = "lookup", !.path = path, !.branch = OrMain(b),
                          !.ref = OrMain(OrMain(b))]
    /\ UNCHANGED <<variant, diagBuf, recorded, trail, gateVars, commitVars, valVars, race,
                   inbound, chain>>

\* getFileShaOrNull on the current ref: null on 404 (no such file, no such
\* ref), the file's hash otherwise; any other error is raised to the caller
CufLookup(out) ==
    /\ cuf.pc \in {"lookup", "fb_lookup"}
    /\ cuf' = IF out = "error"
              THEN [cuf EXCEPT !.pc = "raised"]
              ELSE LET h == IF RefExists(cuf.ref) THEN ShaOf(cuf.entry[cuf.ref]) ELSE Null
                   IN [cuf EXCEPT
                          !.pc = IF cuf.pc = "lookup" THEN "put" ELSE "fb_put",
                          !.sha = h,
                          !.lookups = Append(@, [ref |-> cuf.ref, sha |-> h])]
    /\ UNCHANGED <<variant, diagBuf, recorded, trail, gateVars, commitVars, valVars, race,
                   inbound, chain>>

\* createOrUpdateFileContents on the current ref, and the catch of the first
\* write: one fallback to main, or the error goes to the caller
CufPut(fault) ==
    /\ cuf.pc \in {"put", "fb_put"}
    /\ LET cur == IF fault = "concurrent_write" THEN StoredFile(<<"theirs">>)
                  ELSE cuf.entry[cuf.ref]
           status == storePutStatus(cur, putSha(cuf.sha))
           kind == CASE ~RefExists(cuf.ref) -> "branch_not_found"
                     [] fault = "server_error" -> "server_error"
                     [] status = 409 -> "conflict"
                     [] status = 422 -> "missing_sha"
                     [] OTHER -> "ok"
           msg == WriteErrorMessage(kind, cuf.path, cuf.ref)
           wr == [ref |-> cuf.ref, shaSent |-> putSha(cuf.sha), kind |-> kind]
       IN cuf' =
            IF kind = "ok"
            THEN [cuf EXCEPT
                     !.pc = "returned",
                     !.entry[cuf.ref] = StoredFile(<<"ours">>),
                     !.writes = Append(@, wr),
                     !.result = [ok |-> "true", branch |-> cuf.ref,
                                 created |-> IF cuf.sha = Null THEN "true" ELSE "false",
                                 updated |-> IF cuf.sha = Null THEN "false" ELSE "true"]]
            ELSE IF cuf.pc = "put" /\ fallsBack(cuf.ref, msg)
                 THEN [cuf EXCEPT
                          !.pc = "fb_lookup",
                          !.ref = "main",
                          !.entry[cuf.ref] = IF RefExists(cuf.ref) THEN cur ELSE @,
                          !.writes = Append(@, wr)]
                 ELSE [cuf EXCEPT
                          !.pc = "raised",
                          !.entry[cuf.ref] = IF RefExists(cuf.ref) THEN cur ELSE @,
                          !.writes = Append(@, wr)]
    /\ UNCHANGED <<variant, diagBuf, recorded, trail, gateVars, commitVars, valVars, race,
                   inbound, chain>>

InitFallback ==
    /\ variant = "n8n"
    /\ diagBuf = <<>>
    /\ recorded = 0
    /\ trail = <<>>
    /\ InitGateIdle
    /\ InitCommitIdle
    /\ InitValIdle
    /\ race = NoRace
    /\ inbound = NoInbound
    /\ chain = NoChain
    /\ \E hasFeature \in BOOLEAN :
       \E onMain, onFeature \in {AbsentFile, StoredFile(<<"old">>)} :
           cuf = [NoCuf EXCEPT !.hasFeature = hasFeature,
                               !.entry = [b \in CufBranches |->
                                             IF b = "main" THEN onMain
                                             ELSE IF hasFeature THEN onFeature
                                             ELSE AbsentFile]]

NextFallback ==
    \/ \E path \in CufPaths, b \in {"", "main", "feature"} : CufCall(path, b)
    \/ \E out \in {"ok", "error"} : CufLookup(out)
    \/ \E fault \in {"none", "concurrent_write", "server_error"} : CufPut(fault)

SpecFallback == InitFallback /\ [][NextFallback]_vars

\* --------------------------------------------- the diagnostics buffer
\* capacity of the buffer of a version
Cap(v) == IF v = "v3.5.9" THEN DIAG_MAX_359 ELSE DIAG_MAX

\* the stages of concurrent runs that record events
Recorders == {"architect", "coder", "gate"}

\* the n-th event recorded in the process
Stamped(agent, n) == [agent |-> agent, level |-> "info", message |-> <<"event", n>>]

\* the buffer after its first k record calls, k below the capacity
Prefilled(k) == [i \in 1..k |-> Stamped("architect", i)]

\* A stage of some run records an event: one synchronous call of diag.
RecordEvent(agent) ==
    /\ recorded < Cap(variant) - 2 + MaxRecords
    /\ recorded' = recorded + 1
    /\ diagBuf' = IF variant = "v3.5.9"
                  THEN diag359(diagBuf, agent, "info", <<"event", recorded + 1>>)
                  ELSE diag(diagBuf, agent, "info", <<"event", recorded + 1>>)
    /\ UNCHANGED <<variant, trail, gateVars, commitVars, valVars, sideVars>>

\* a process whose buffer is two events short of its capacity
InitDiag ==
    /\ variant \in {"v3.5.6", "v3.5.9"}
    /\ recorded = Cap(variant) - 2
    /\ trail = <<>>
    /\ diagBuf = Prefilled(Cap(variant) - 2)
    /\ InitGateIdle
    /\ InitCommitIdle
    /\ InitValIdle
    /\ InitSideIdle

NextDiag == \E agent \in Recorders : RecordEvent(agent)

SpecDiag == InitDiag /\ [][NextDiag]_vars

\* ------------------------------------------------- tester and quality
\* the versions whose validators are modelled
ValidatorVariants == {"v3.5", "v3.5.1", "v3.5.6", "v3.5.9"}

\* What getTextFileOrNull gives a validator: the text (its marks), null, or
\* an error raised. v3.5.1 calls the function without defining it, which
\* raises a ReferenceError; v3.5 rethrows a store error that is not a 404;
\* v3.5.6 and v3.5.9 return null on any error.
getTextFileOrNull(v, f, fault) ==
    IF v = "v3.5.1" THEN [raised |-> TRUE, null |-> TRUE, marks |-> {}]
    ELSE IF fault THEN [raised |-> v = "v3.5", null |-> TRUE, marks |-> {}]
    ELSE [raised |-> FALSE, null |-> ~f.present, marks |-> f.marks]

\* a check of the tester plan
Check(id, required) == [id |-> id, required |-> required]

\* the checks the tester always appends (v3.5, v3.5.1)
DefaultChecks == <<Check("html_title", TRUE), Check("css_vars", TRUE)>>

\* the checks heuristicBrain plans for the tester
PlannedChecks ==
    <<Check("html_title", TRUE), Check("css_vars", TRUE), Check("js_email", FALSE)>>

\* the outcome of one check of v3.5 / v3.5.1: an id the tester does not
\* know passes
checkOk(id, html, css, js) ==
    CASE id = "html_title" -> "title" \in html.marks
      [] id = "css_vars" -> "root" \in css.marks
      [] id = "js_email" -> "email" \in js.marks
      [] OTHER -> TRUE

Bool(b) == IF b THEN "true" ELSE "false"

\* x?.includes(mark) of v3.5.9: undefined on a null text
Includes(t, mark) == IF t.null THEN "undefined" ELSE Bool(mark \in t.marks)

ErrorOut == [code |-> 500, ok |-> "false", verdict |-> "none", details |-> <<>>, findings |-> <<>>]

\* POST /run/tester
tester(v, st, r) ==
    LET html == getTextFileOrNull(v, st["index.html"], r.fault)
        css == getTextFileOrNull(v, st["style.css"], r.fault)
        js == getTextFileOrNull(v, st["script.js"], r.fault)
    IN IF html.raised \/ css.raised \/ js.raised THEN ErrorOut
       ELSE IF v \in {"v3.5", "v3.5.1"}
       THEN LET checks == r.checks \o DefaultChecks
                details == [i \in 1..Len(checks) |->
                               [id |-> checks[i].id, ok |-> checkOk(checks[i].id, html, css, js)]]
                failed == \E i \in 1..Len(details) : ~details[i].ok
            IN [code |-> 200, ok |-> Bool(~failed),
                verdict |-> IF failed THEN "failed" ELSE "passed",
                details |-> details, findings |-> <<>>]
       ELSE LET details == <<[id |-> "hasTitle", ok |-> "title" \in html.marks],
                             [id |-> "hasMain", ok |-> "main" \in html.marks],
                             [id |-> "cssRoot", ok |-> "root" \in css.marks],
                             [id |-> "jsLog", ok |-> "log" \in js.marks]>>
                all == \A i \in 1..Len(details) : details[i].ok
            IN IF v = "v3.5.6"
               THEN [code |-> 200, ok |-> Bool(all),
                     verdict |-> IF all THEN "passed" ELSE "failed",
                     details |-> details, findings |-> <<>>]
               ELSE IF html.null /\ css.null /\ js.null
               THEN [code |-> 200, ok |-> "false", verdict |-> "failed",
                     details |-> <<>>, findings |-> <<>>]
               ELSE LET ok == JsAnd(JsAnd(JsAnd(Includes(html, "title"), Includes(html, "main")),
                                          Includes(css, "root")), Includes(js, "log"))
                    IN [code |-> 200, ok |-> ok,
                        verdict |-> IF ok = "true" THEN "passed" ELSE "failed",
                        details |-> details, findings |-> <<>>]

\* a finding of the quality check
LongLines == <<"Very long lines detected.">>
InlineStyle == <<"Inline <style> detected. Prefer external CSS.">>
NoMain == <<"Semantic <main> tag missing.">>
LlmFail == <<"LLM review suggests failing quality gate.">>

\* the findings of v3.5 / v3.5.1, in the order they are pushed
qualityFindings(html, css, js, llm) ==
    (IF "long" \in (html.marks \cup css.marks \cup js.marks) THEN <<LongLines>> ELSE <<>>)
    \o (IF "style" \in html.marks THEN <<InlineStyle>> ELSE <<>>)
    \o (IF "main" \notin html.marks THEN <<NoMain>> ELSE <<>>)
    \o (IF llm = "fail" THEN <<LlmFail>> ELSE <<>>)

\* the number of findings the quality check tolerates
Tolerance(v) == IF v = "v3.5.1" THEN 1 ELSE 0

\* failed = findings.length > N (v3.5.1: || llmVerdict === "fail")
qualityFailed(v, findings, llm) ==
    Len(findings) > Tolerance(v) \/ (v = "v3.5.1" /\ llm = "fail")

\* POST /run/quality
quality(v, st, r) ==
    LET html == getTextFileOrNull(v, st["index.html"], r.fault)
        css == getTextFileOrNull(v, st["style.css"], r.fault)
        js == getTextFileOrNull(v, st["script.js"], r.fault)
    IN IF v \in {"v3.5", "v3.5.1"}
       THEN IF html.raised \/ css.raised \/ js.raised THEN ErrorOut
            ELSE LET findings == qualityFindings(html, css, js, r.llm)
                     failed == qualityFailed(v, findings, r.llm)
                 IN [code |-> 200, ok |-> Bool(~failed),
                     verdict |-> IF failed THEN "fail" ELSE "pass",
                     details |-> <<>>, findings |-> findings]
       ELSE IF v = "v3.5.6"
       THEN LET details == <<[id |-> "hasFooter", ok |-> "footer" \in html.marks],
                             [id |-> "noInlineStyle", ok |-> "styleattr" \notin html.marks],
                             [id |-> "semanticHeader", ok |-> "header" \in html.marks]>>
                all == \A i \in 1..Len(details) : details[i].ok
            IN [code |-> 200, ok |-> Bool(all), verdict |-> IF all THEN "pass" ELSE "fail",
                details |-> details, findings |-> <<>>]
       ELSE LET details == <<[id |-> "hasFooter", ok |-> "footer" \in html.marks],
                             [id |-> "semanticHeader", ok |-> "header" \in html.marks]>>
                ok == JsAnd(Includes(html, "footer"), Includes(html, "header"))
            IN [code |-> 200, ok |-> ok, verdict |-> IF ok = "true" THEN "pass" ELSE "fail",
                details |-> details, findings |-> <<>>]

\* the pages, style sheets and scripts a run may have committed
HtmlFiles ==
    {NoFile, File({}), File({"title", "main", "footer", "header"}),
     File({"title", "main", "footer", "header", "style"}),
     File({"title", "footer", "header", "long"})}
CssFiles == {NoFile, File({}), File({"root"})}
JsFiles == {NoFile, File({"log"}), File({"log", "email"})}

Sites ==
    {[p \in {"index.html", "style.css", "script.js"} |->
         CASE p = "index.html" -> h [] p = "style.css" -> c [] OTHER -> j]
        : h \in HtmlFiles, c \in CssFiles, j \in JsFiles}

\* the requests the coder sends to the validators: the planned checks or
\* none, no LLM (no API key) or an LLM that says pass or fail, and a store
\* that answers or fails
ValidatorRequests ==
    [checks : {<<>>, PlannedChecks}, llm : {"none", "pass", "fail"}, fault : BOOLEAN]

\* diagnostics of a validator run (v3.5.6, v3.5.9)
readWarnings(buf, v, r, reads) ==
    IF v = "v3.5.6" /\ r.fault
    THEN IF reads = 3
         THEN diag(diag(diag(buf, "github", "warn", "getTextFileOrNull"),
                        "github", "warn", "getTextFileOrNull"),
                   "github", "warn", "getTextFileOrNull")
         ELSE diag(buf, "github", "warn", "getTextFileOrNull")
    ELSE buf

validatorDiag(buf, v, agent, r, out, reads) ==
    LET b1 == readWarnings(buf, v, r, reads)
    IN CASE v = "v3.5.6" /\ out.ok # "true" -> diag(b1, agent, "warn", IF agent = "tester" THEN "Checks failed" ELSE "Rules failed")
         [] v = "v3.5.9" /\ agent = "tester" /\ out.details = <<>> ->
                diag359(b1, agent, "error", "No files found in repo")
         [] OTHER -> b1

\* array.slice(-n): the last n elements, all of them when there are fewer
slice(buf, n) == SubSeq(buf, IF Len(buf) > n THEN Len(buf) - n + 1 ELSE 1, Len(buf))

\* how many events a stage response embeds
EmbeddedEvents(v) == IF v = "v3.5.9" THEN 10 ELSE 5

\* The diag field of a validator's response. v3.5.6 builds the response,
\* slice included, before it records that the checks failed; its 500
\* response carries the one event just recorded. v3.5.9 slices last, and
\* its tester's no_files response has no diag field.
embeddedDiag(v, agent, before, after, out) ==
    CASE v = "v3.5.6" /\ out.code = 500 -> [by |-> agent, events |-> slice(after, 1)]
      [] v = "v3.5.6" -> [by |-> agent, events |-> slice(before, EmbeddedEvents(v))]
      [] v = "v3.5.9" /\ agent = "tester" /\ out.details = <<>> -> NoRead
      [] v = "v3.5.9" -> [by |-> agent, events |-> slice(after, EmbeddedEvents(v))]
      [] OTHER -> NoRead

\* GET /_diag: the whole buffer (v3.5.6), its last 30 events (v3.5.9)
DiagEndpointVariants == {"v3.5.6", "v3.5.9"}
endpointDiag(v, buf) == IF v = "v3.5.9" THEN slice(buf, 30) ELSE buf

ReadDiag ==
    /\ variant \in DiagEndpointVariants
    /\ diagRead.by # "endpoint"
    /\ diagRead' = [by |-> "endpoint", events |-> endpointDiag(variant, diagBuf)]
    /\ UNCHANGED <<variant, recorded, trail, diagBuf, gateVars, commitVars, sideVars, site, vreq,
                   testerOut, qualityOut, testerPrev, qualityPrev, rounds>>

RunTester ==
    /\ testerOut = NoOut
    /\ testerOut' = tester(variant, site, vreq)
    /\ diagBuf' = validatorDiag(diagBuf, variant, "tester", vreq, tester(variant, site, vreq), 3)
    /\ diagRead' = embeddedDiag(variant, "tester", readWarnings(diagBuf, variant, vreq, 3),
                                diagBuf', tester(variant, site, vreq))
    /\ UNCHANGED <<variant, recorded, trail, gateVars, commitVars, sideVars, site, vreq, qualityOut, testerPrev, qualityPrev, rounds>>

RunQuality ==
    /\ qualityOut = NoOut
    /\ qualityOut' = quality(variant, site, vreq)
    /\ diagBuf' = validatorDiag(diagBuf, variant, "quality", vreq, quality(variant, site, vreq), 1)
    /\ diagRead' = embeddedDiag(variant, "quality", readWarnings(diagBuf, variant, vreq, 1),
                                diagBuf', quality(variant, site, vreq))
    /\ UNCHANGED <<variant, recorded, trail, gateVars, commitVars, sideVars, site, vreq, testerOut, testerPrev, qualityPrev, rounds>>

\* The caller validates the same committed files again, with the same checks
\* and rules: what may differ from the previous round is whether the store
\* answers the reads and, with an API key, what the LLM says.
Revalidate(fault, llm) ==
    /\ testerOut # NoOut
    /\ qualityOut # NoOut
    /\ rounds < MaxRuns
    /\ (vreq.llm = "none") = (llm = "none")
    /\ rounds' = rounds + 1
    /\ testerPrev' = testerOut
    /\ qualityPrev' = qualityOut
    /\ testerOut' = NoOut
    /\ qualityOut' = NoOut
    /\ vreq' = [vreq EXCEPT !.fault = fault, !.llm = llm]
    /\ UNCHANGED <<variant, recorded, trail, diagBuf, gateVars, commitVars, sideVars, site, diagRead>>

InitValidateSpec ==
    /\ variant \in ValidatorVariants
    /\ diagBuf = <<>>
    /\ recorded = 0
    /\ trail = <<>>
    /\ InitGateIdle
    /\ InitCommitIdle
    /\ site \in Sites
    /\ vreq \in ValidatorRequests
    /\ testerOut = NoOut
    /\ qualityOut = NoOut
    /\ testerPrev = NoOut
    /\ qualityPrev = NoOut
    /\ rounds = 1
    /\ diagRead = NoRead
    /\ InitSideIdle

NextValidate ==
    \/ ReadDiag
    \/ RunTester
    \/ RunQuality
    \/ \E fault \in BOOLEAN, llm \in {"none", "pass", "fail"} : Revalidate(fault, llm)

SpecValidate == InitValidateSpec /\ [][NextValidate]_vars

\* ============================================================== the claims
\* helpers of the statements
IsPrefix(a, b) == Len(a) <= Len(b) /\ SubSeq(b, 1, Len(a)) = a

Contains(b, a) == \E i \in 0..(Len(b) - Len(a)) : SubSeq(b, i + 1, i + Len(a)) = a

\* the gate handler has ended: it answered, or it died without answering
GateEnded == pc \in {"done", "crashed"}

\* the context the current gate invocation received
Received == req.orchestration

\* retries of the context the first gate invocation of the run received
RunStartRetries == startRetries

AllFailed == \A i \in 1..Len(verdicts) : verdicts[i] = "fail"

\* the current invocation's validation failed / passed
FailingNow == pc # "idle" /\ req.hasOrch /\ Verdict(req.tester, req.quality) = "fail"
PassingNow == pc # "idle" /\ req.hasOrch /\ Verdict(req.tester, req.quality) = "pass"

LoopedBack == pc # "idle" /\ Len(fwds) >= 1 /\ fwds[1].to = "/run/coder"
Forwarded == Unwrap(fwds[1].sent)

\* C1: within one run whose validations all fail, with maxRetries = 2 the
\* third failing validation is answered gave_up and the gate forwards to the
\* coder at most maxRetries times (no fourth coder invocation).
C1_NeverLoopsUnboundedly ==
    (/\ variant \in {"v3.5.1", "v3.5.6"}
     /\ pc # "idle" /\ req.hasOrch
     /\ RunStartRetries = 0 /\ Received.maxRetries = 2
     /\ AllFailed)
    => /\ coderCalls <= Received.maxRetries
       /\ gateCalls = 3 => (fwds = <<>> /\ (GateEnded => resp.status = "gave_up"))

\* C2: a gate invocation with a failing verdict and retries >= maxRetries
\* is answered ok:false, gave_up, and forwards to no stage.
C2_ExhaustedForwardsNothing ==
    (/\ variant \in {"v3.5", "v3.5.1"}
     /\ FailingNow
     /\ Received.retries >= Received.maxRetries)
    => /\ fwds = <<>>
       /\ pc = "done" /\ resp.ok = "false" /\ resp.status = "gave_up"

\* C3: every context the gate forwards to the coder has retries >= the
\* retries received and <= maxRetries, for all integer retries and maxRetries
\* (maxRetries = 0 included); retries = maxRetries with a failing verdict
\* reaches EXHAUSTED, never LOOPING.
C3_MonotonicRetries ==
    (variant = "v3.5.1" /\ req.hasOrch /\ LoopedBack)
    => /\ Forwarded.retries >= Received.retries
       /\ Forwarded.retries <= Forwarded.maxRetries
       /\ Received.retries # Received.maxRetries

\* C4: on a failing verdict with retries < maxRetries the gate forwards to
\* the coder exactly once, with retries + 1 and a feedback that merges the
\* tester advice and the quality findings of this iteration, answers with the
\* looped status, and forwards to neither integrator nor supervisor.
C4_LoopBackTransition ==
    (variant = "v3.5.1" /\ FailingNow /\ Received.retries < Received.maxRetries)
    => /\ Len(fwds) = 1 /\ fwds[1].to = "/run/coder"
       /\ Forwarded.retries = Received.retries + 1
       /\ Contains(Forwarded.feedback, OrEmpty(req.tester.advice))
       /\ \A i \in 1..Len(req.quality.findings) :
              Contains(Forwarded.feedback, req.quality.findings[i])
       /\ GateEnded => (resp.ok = "true" /\ resp.status = "looped_to_coder")

\* C5: the feedback the gate received in its input context is a prefix of
\* the feedback it forwards on loop-back: segments are appended, oldest
\* first, and no earlier segment is overwritten.
C5_FeedbackAccumulates ==
    (variant \in {"v3.5", "v3.5.1"} /\ req.hasOrch /\ LoopedBack)
    => /\ Forwarded.feedback # Undefined
       /\ IsPrefix(OrEmpty(Received.feedback), Forwarded.feedback)
       /\ Contains(Forwarded.feedback, gateFeedback(req.tester, req.quality))

\* C6: for every loop-back, the coder the gate invoked hands exactly the
\* feedback of the loop-back context to the generator.
C6_FeedbackReachesGenerator ==
    (/\ variant \in {"v3.5.1", "v3.5.6"}
     /\ LoopedBack /\ GateEnded
     /\ coderIn.called /\ coderIn.retries = Forwarded.retries)
    => coderIn.feedback = Forwarded.feedback

\* C7: when both verdicts pass the gate forwards to the integrator and then
\* to the supervisor, whatever the integrator returned, and its own result
\* is ok:true whatever the two returned, a transport failure included.
C7_ProceedIsBestEffort ==
    (variant \in {"v3.5.1", "v3.5.6"} /\ PassingNow)
    => /\ Len(fwds) >= 1 /\ fwds[1].to = "/run/integrator"
       /\ Len(fwds) >= 2 => fwds[2].to = "/run/supervisor"
       /\ GateEnded => (Len(fwds) = 2 /\ resp.ok = "true")

\* the run of the example: it started at retries 0, its first validation
\* failed and its second passed, every request carrying the context
FailThenPass ==
    /\ variant = "v3.5.1"
    /\ pc # "idle" /\ req.hasOrch
    /\ RunStartRetries = 0
    /\ verdicts = <<"fail", "pass">>

\* what holds of that run up to the status the gate answers with
FailThenPassRun(status) ==
    /\ coderCalls = 1
    /\ Received.retries = 1
    /\ Len(fwds) >= 1 /\ fwds[1].to = "/run/integrator"
    /\ Unwrap(fwds[1].sent).retries = 1
    /\ Len(fwds) >= 2 => fwds[2].to = "/run/supervisor"
    /\ pc = "done" => /\ Len(fwds) = 2
                      /\ resp = [ok |-> "true", status |-> status, code |-> 200]

OutcomeRecorded == idx >= 1 /\ Len(results) = idx /\ cpc \in {"next", "returned"}
WriteOk(e) == e.status \in {200, 201}
CommitEnded == cpc \in {"returned", "raised"}

\* C9: committing one file makes at most Tries (3) write attempts, stops at
\* the first successful write and returns ok:true, returns an outcome with
\* ok:false for the path once its attempts have failed, and never raises to
\* its caller, whatever the store does and whatever content the generator
\* supplied (v3.5.1 commitWithRetry, v3.5.6 commitAtomic).
C9_CommitOneNeverRaises ==
    variant \in {"v3.5.1", "v3.5.6"} =>
        /\ cpc # "raised"
        /\ \A i \in 1..Len(attempts) : attempts[i] <= Tries
        /\ Len(putLog) <= Tries
        /\ \A j \in 1..(Len(putLog) - 1) : ~WriteOk(putLog[j])
        /\ OutcomeRecorded =>
              /\ Len(putLog) >= 1
              /\ results[idx].path = files[idx].path
              /\ results[idx].ok = WriteOk(putLog[Len(putLog)])
        /\ (cpc \in {"next", "returned"} /\ idx >= 1) => Len(results) = idx

\* C10: a batch of N files attempts every file and returns N outcomes in
\* input order; a file that fails does not keep the other files from being
\* attempted and reported (v3.5 / v3.5.1 commitMany, v3.5.6 commitSequential).
C10_PartialFailureIsolation ==
    (variant \in Variants /\ CommitEnded) =>
        /\ cpc = "returned"
        /\ Len(results) = Len(files)
        /\ Len(attempts) = Len(files)
        /\ \A i \in 1..Len(files) :
              /\ results[i].path = files[i].path
              /\ attempts[i] >= 1


\* the batch is over and the coder has responded
CoderResponded == cpc \in {"responded", "responded_error"}

\* C11: the errors list is exactly the sub-list of the results with
\* ok:false, and whenever a file's outcome is ok:false the ok the coder
\* reports for the batch is false (v3.5.1, v3.5.6, v3.5.9).
C11_AggregateIsConjunction ==
    /\ variant = "v3.5.1" => errors = SelectSeq(results, NotOk)
    /\ (variant \in {"v3.5.1", "v3.5.6", "v3.5.9"} /\ CoderResponded /\ ~AllOk(results))
          => coderResp.ok = "false"


\* the outcome of file n is in the call log before position k
OutcomeKnownBefore(n, k) == \E j \in 1..(k - 1) : callLog[j] = Call(n, "outcome")

\* C12: within one batch no store read or write for file N+1 is issued
\* before the outcome of file N is known, and no call is issued for a file
\* whose own outcome is already known (v3.5.1 commitMany, v3.5.6
\* commitSequential).
C12_StrictlySequential ==
    variant \in {"v3.5.1", "v3.5.6"} =>
        \A k \in 1..Len(callLog) :
            callLog[k].kind # "outcome" =>
                /\ \A n \in 1..(callLog[k].file - 1) : OutcomeKnownBefore(n, k)
                /\ ~OutcomeKnownBefore(callLog[k].file, k)

\* a batch of two files both of which needed a second attempt
C12_Witness ==
    /\ variant \in {"v3.5.1", "v3.5.6"}
    /\ cpc = "returned"
    /\ Len(files) = 2
    /\ attempts[1] >= 2 /\ attempts[2] >= 2
    /\ Len(callLog) >= 10


\* C13: for every outcome with ok:true, created is true iff the hash lookup
\* of the attempt that succeeded returned null, updated is true otherwise,
\* and exactly one of the two is true (v3.5.1 commitWithRetry, n8n
\* createOrUpdateFile).
C13_CreatedIffLookupNull ==
    (variant \in {"v3.5.1", "n8n"} /\ OutcomeRecorded /\ results[idx].ok) =>
        LET r == results[idx]
            lookup == putLog[Len(putLog)].shaRead
        IN /\ r.created = "true" <=> lookup = Null
           /\ r.updated = "true" <=> lookup # Null
           /\ {r.created, r.updated} = {"true", "false"}

\* an update that succeeded on a later attempt, after a lookup of that
\* attempt found the file
C13_Witness ==
    /\ variant = "v3.5.1"
    /\ OutcomeRecorded /\ results[idx].ok
    /\ Len(putLog) >= 2
    /\ putLog[1].shaRead = Null
    /\ results[idx].updated = "true"


\* the hash lookup has just returned to the commit that called it
LookupReturned == cpc = "put"
LastCall == callLog[Len(callLog)]

\* C14: the hash lookup returns null only when the store reports the file
\* as absent; any other store failure propagates to the caller as an error
\* and is never reported as null (v3.5.1, v3.5.6, n8n getFileShaOrNull).
C14_NullOnlyWhenAbsent ==
    (variant \in {"v3.5.1", "v3.5.6", "n8n"} /\ LookupReturned /\ sha = Null) =>
        /\ LastCall.kind = "read"
        /\ ~store[files[idx].path].exists


\* the ways a forward fails in transport: the stage cannot be reached, or
\* its reply is not JSON
TransportFailures == {"unreachable", "nonjson"}

\* C15: on a transport failure forward returns a value with ok:false and an
\* error instead of raising, so the gate that called it always completes and
\* responds (v3.5.1, v3.5.6).
C15_ForwardNeverRaises ==
    (variant \in {"v3.5.1", "v3.5.6"} /\ fwds # <<>>) =>
        /\ pc # "crashed"
        /\ \A out \in TransportFailures :
              LET r == forwardResult(variant, out)
              IN ~r.raised /\ r.ok = "false" /\ r.error


\* C16: for every context c, forward(stage, c) and forward(stage,
\* {payload: c}) dispatch the identical body {payload: c}: a bare context is
\* wrapped exactly once, an envelope never again (v3.5, v3.5.1, v3.5.6).
C16_OneCanonicalEnvelope ==
    (variant \in {"v3.5", "v3.5.1", "v3.5.6"} /\ fwds # <<>>) =>
        LET c == Unwrap(fwds[1].sent)
        IN /\ forwardBody(variant, Bare(c)) = Envelope(c)
           /\ forwardBody(variant, Envelope(c)) = Envelope(c)


\* C17: every invocation of a stage ends with exactly one structured
\* response carrying an explicit boolean ok, whatever its input and whatever
\* fails downstream: an error raised inside the stage becomes an ok:false
\* response with status 500, never a missing response (the gate of v3.5.1
\* and v3.5.6).
C17_EveryStageResponds ==
    (variant \in {"v3.5.1", "v3.5.6"} /\ GateEnded) =>
        /\ pc = "done"
        /\ resp.ok \in {"true", "false"}
        /\ resp.code \in {200, 400, 500}

\* the tester answered with a verdict (v3.5, v3.5.1)
TesterJudged == variant \in {"v3.5", "v3.5.1"} /\ testerOut # NoOut /\ testerOut.code = 200

\* C18: the tester's aggregate result is pass iff every check marked
\* required passes; a failing check marked required:false is recorded in the
\* per-check results but does not turn the verdict to fail.
C18_RequiredChecksDecide ==
    TesterJudged =>
        LET checks == vreq.checks \o DefaultChecks
        IN /\ Len(testerOut.details) = Len(checks)
           /\ \A i \in 1..Len(checks) : testerOut.details[i].id = checks[i].id
           /\ testerOut.verdict = "passed"
                  <=> \A i \in 1..Len(checks) : checks[i].required => testerOut.details[i].ok

\* the file a check or rule reads
DependsOn(id) ==
    CASE id \in {"html_title", "hasTitle", "hasMain", "hasFooter", "semanticHeader", "noInlineStyle"}
             -> "index.html"
      [] id \in {"css_vars", "cssRoot"} -> "style.css"
      [] OTHER -> "script.js"

\* the files the checks of a validator depend on
TesterFiles ==
    IF variant = "v3.5.9" THEN {"index.html", "style.css", "script.js"}
    ELSE {DependsOn(c.id) : c \in {(vreq.checks \o DefaultChecks)[i] : i \in 1..Len(vreq.checks) + 2}}
QualityFiles == {"index.html"}

Absent(fs) == \E f \in fs : ~site[f].present

\* a validator's answer reports the failure of everything that reads an
\* absent file
ReportsAbsence(out) ==
    /\ out.code = 200
    /\ out.ok = "false"
    /\ \A i \in 1..Len(out.details) :
           ~site[DependsOn(out.details[i].id)].present => ~out.details[i].ok

\* C19: with index.html, style.css or script.js absent from the store (and
\* the store answering), the tester and the quality check each return a
\* result without raising, every check or rule that depends on an absent
\* file is reported failed, and the verdict of a validator whose checks
\* depend on an absent file is ok:false.
C19_AbsentFilesAreReportedFailures ==
    (variant \in {"v3.5.1", "v3.5.9"} /\ ~vreq.fault) =>
        /\ (testerOut # NoOut /\ Absent(TesterFiles)) => ReportsAbsence(testerOut)
        /\ (qualityOut # NoOut /\ Absent(QualityFiles)) => ReportsAbsence(qualityOut)

\* the quality check answered with a verdict (v3.5, v3.5.1)
QualityJudged == variant \in {"v3.5", "v3.5.1"} /\ qualityOut # NoOut /\ qualityOut.code = 200

\* C20: the quality verdict is decided by a tolerance threshold on the
\* number of findings: with at most one finding the verdict is pass, with
\* more than one it is fail.
C20_ToleranceThreshold ==
    QualityJudged =>
        /\ Len(qualityOut.findings) > 1 => qualityOut.verdict = "fail"
        /\ Len(qualityOut.findings) <= 1 => qualityOut.verdict = "pass"

\* both rounds of a validator have answered
Revalidated(prev, out) == prev # NoOut /\ out # NoOut

SameVerdict(prev, out) == prev.ok = out.ok /\ prev.findings = out.findings

\* C21: running the tester, and the quality check, twice against the same
\* committed files with the same checks and rules yields identical
\* {ok, findings}; a validator run writes nothing to the store and changes
\* nothing in the context.
C21_IdempotentRevalidation ==
    /\ [](variant \in {"v3.5.1", "v3.5.6"} =>
            /\ Revalidated(testerPrev, testerOut) => SameVerdict(testerPrev, testerOut)
            /\ Revalidated(qualityPrev, qualityOut) => SameVerdict(qualityPrev, qualityOut))
    /\ [][(RunTester \/ RunQuality) => UNCHANGED <<site, store, orch>>]_vars

\* the call log holds a call of the given kind, at or before position k
Logged(kind, k) == \E j \in 1..k : callLog[j].kind = kind

\* C22: in one coder invocation no validator is invoked before every file of
\* the batch has its final commit outcome, and the response that hands on
\* the two verdicts is produced only after both the tester and the quality
\* check have returned (v3.5.1, v3.5.6).
C22_ValidateAfterCommit ==
    variant \in {"v3.5.1", "v3.5.6"} =>
        /\ \A k \in 1..Len(callLog) :
               callLog[k].kind \in {"tester_invoked", "quality_invoked"} =>
                   /\ idx = Len(files)
                   /\ \A n \in 1..Len(files) : OutcomeKnownBefore(n, k)
        /\ \A k \in 1..Len(callLog) :
               (callLog[k].kind = "responded" /\ coderResp.code = 200) =>
                   Logged("tester_returned", k) /\ Logged("quality_returned", k)

\* a batch of two files, the second of which failed, was committed before
\* the validators were called and the coder answered with their verdicts
C22_Witness ==
    /\ variant \in {"v3.5.1", "v3.5.6"}
    /\ cpc = "responded"
    /\ coderResp.code = 200
    /\ Len(files) = 2
    /\ ~results[2].ok
    /\ Logged("tester_invoked", Len(callLog))
    /\ Logged("quality_returned", Len(callLog))

\* the generator outcomes the coder cannot use
Unusable ==
    {"transport_error", "unparsable", "empty_object", "files_empty", "null_value",
     "entry_no_content"}

\* C23: for every outcome of the external generator the coder commits a
\* well-formed file set, the deterministic scaffold when the generator's
\* output is unusable, and the generation failure is never surfaced to the
\* caller as an error response (v3.5.1).
C23_GenerationFailureRecovered ==
    (variant = "v3.5.1" /\ gen # NoGen) =>
        /\ cpc \notin {"raised", "responded_error"}
        /\ WellFormed(files)
        /\ gen.out \in Unusable => files = DefaultFiles

Min(a, b) == IF a < b THEN a ELSE b

\* C24: after any sequence of record calls issued by the stages of
\* concurrent runs, the buffer holds at most DIAG_MAX events and they are
\* exactly the last min(n, DIAG_MAX) of the n events recorded, in the order
\* they were recorded (v3.5.6, v3.5.9).
C24_BoundedFifoBuffer ==
    /\ Len(diagBuf) = Min(recorded, Cap(variant))
    /\ \A i \in 1..Len(diagBuf) :
           diagBuf[i].message = <<"event", recorded - Len(diagBuf) + i>>

\* the buffer is full and has evicted its oldest events, recorded by
\* different stages
C24_Witness ==
    /\ recorded > Cap(variant)
    /\ Len(diagBuf) = Cap(variant)
    /\ diagBuf[Len(diagBuf)].agent # diagBuf[Len(diagBuf) - 1].agent

\* the buffer holds an event of forward that names the stage
ForwardLogged(path) ==
    \E i \in 1..Len(diagBuf) : diagBuf[i].agent = "forward" /\ diagBuf[i].message[2] = path

\* C25: every call of forward, whether it succeeds or fails, has appended a
\* diagnostic event naming the target stage by the time it returns: once
\* the coder has answered, its forwards to the tester and to the quality
\* check are both in the buffer (v3.5.6, v3.5.9).
C25_ForwardAlwaysLogged ==
    (variant \in {"v3.5.6", "v3.5.9"} /\ cpc = "responded") =>
        ForwardLogged("/run/tester") /\ ForwardLogged("/run/quality")

\* C26: the runId of the context the architect created is the runId every
\* later stage of the run sees: coder, tester, quality, gate, loop-back,
\* integrator and supervisor (v3.5.1, v3.5.9).
C26_RunIdCarried ==
    variant \in {"v3.5.1", "v3.5.9"} =>
        \A i \in 1..Len(trail) : trail[i].ctx.runId = trail[1].ctx.runId

\* loop-backs of the run at or before position i of the trail
LoopsUpTo(i) == Cardinality({j \in Loops : j <= i})

\* C27: retries is 0 in the context the architect creates, whatever the
\* request contained, and only the gate's loop-back changes it: every stage
\* sees retries equal to the number of loop-backs so far and the maxRetries
\* the architect set (v3.5.1, v3.5.9).
C27_RetriesOnlyByLoopBack ==
    (variant \in {"v3.5.1", "v3.5.9"} /\ trail # <<>>) =>
        /\ trail[1].ctx.retries = 0
        /\ \A i \in 1..Len(trail) :
               /\ trail[i].ctx.retries = LoopsUpTo(i)
               /\ trail[i].ctx.maxRetries = trail[1].ctx.maxRetries

\* two contexts agree in every field but retries and feedback
SamePlan(a, b) ==
    /\ a.runId = b.runId
    /\ a.owner = b.owner
    /\ a.repo = b.repo
    /\ a.branch = b.branch
    /\ a.maxRetries = b.maxRetries
    /\ a.coder_plan = b.coder_plan
    /\ a.tester_plan = b.tester_plan
    /\ a.quality_rules = b.quality_rules

\* C28: the context the gate forwards on loop-back equals the context it
\* received in every field except retries and feedback, so every coder
\* re-invocation is sent the architect's plan unchanged (v3.5.1, v3.5.6,
\* v3.5.9).
C28_PlanNeverMutated ==
    \A i \in Loops :
        /\ trail[i - 1].stage = "gate"
        /\ SamePlan(trail[i].ctx, trail[i - 1].ctx)
        /\ SamePlan(trail[i].ctx, trail[1].ctx)

\* the gate has looped back twice and the coder was invoked again
C28_Witness ==
    /\ Cardinality(Loops) >= 2
    /\ LastStage = "coder"
    /\ trail[1].ctx.coder_plan = <<"plan">>
    /\ trail[Len(trail) - 1].ctx.retries = 2

\* C29: deleteIfExists issues a delete only when the file is present, with
\* the hash it has just read; when the file is absent it issues no delete
\* and returns ok:true, deleted:false; deleted:true is returned only after
\* the store accepted the delete; and the operation always returns a result
\* to the coder, which goes on to its batch (v3.5.1).
C29_DeleteIfExists ==
    variant = "v3.5.1" =>
        /\ Len(cssCleanup.deletes) <= 1
        /\ \A i \in 1..Len(cssCleanup.deletes) :
               /\ cssCleanup.seen.exists
               /\ cssCleanup.deletes[i].shaSent = ShaOf(cssCleanup.seen)
        /\ (cssCleanup.pc = "done" /\ ~cssCleanup.seen.exists) =>
               /\ cssCleanup.deletes = <<>>
               /\ cssCleanup.ok = "true"
               /\ cssCleanup.deleted = "false"
        /\ cssCleanup.deleted = "true" =>
               /\ cssCleanup.deletes[1].status = 200
               /\ ~cssCleanup.entry.exists
        /\ cssCleanup.pc = "done" =>
               /\ cssCleanup.ok \in {"true", "false"}
               /\ cpc # "cleanup"

\* styles.css was present, was deleted with the hash read, and the coder
\* went on to commit its batch
C29_Witness ==
    /\ variant = "v3.5.1"
    /\ cssCleanup.deleted = "true"
    /\ cssCleanup.seen.exists
    /\ cpc = "responded"

\* the file being committed was read from the store with the hash of the
\* very content the commit writes
IdenticalContent ==
    /\ idx >= 1
    /\ putLog # <<>>
    /\ putLog[Len(putLog)].shaRead =
           ShaOf(StoredFile(toBase64(variant, files[idx].content)))

\* C30: the commit engine does not special-case identical content (v3.5.1):
\* every recorded outcome follows at least one write attempt; a file whose
\* content is the store's current content is written again with the hash
\* read, the store accepts it when nothing interferes, its content for the
\* path stays what it was, and the outcome says updated and not created.
C30_IdenticalContentRewritten ==
    variant = "v3.5.1" =>
        /\ \A i \in 1..Len(results) : attempts[i] >= 1
        /\ IdenticalContent =>
               LET last == putLog[Len(putLog)]
                   path == files[idx].path
               IN /\ last.shaSent = last.shaRead
                  /\ faults = 0 => last.status = 200
                  /\ last.status = 200 =>
                         /\ store[path] = StoredFile(toBase64(variant, files[idx].content))
                         /\ Len(results) = idx
                         /\ results[idx].ok
                         /\ results[idx].updated = "true"
                         /\ results[idx].created = "false"

\* the same content was committed a second time and reported as updated
C30_Witness ==
    /\ variant = "v3.5.1"
    /\ IdenticalContent
    /\ Len(results) = idx
    /\ results[idx].updated = "true"
    /\ store[files[idx].path] = StoredFile(toBase64(variant, files[idx].content))

\* how many events a read returns at most: the whole buffer from the
\* endpoint of v3.5.6, the slice lengths otherwise
ReadLimit(v, by) ==
    IF by = "endpoint" THEN (IF v = "v3.5.9" THEN 30 ELSE DIAG_MAX)
    ELSE EmbeddedEvents(v)

Applied == SelectSeq(race.writes, LAMBDA w : w.status \in {200, 201})

\* C32: two runs that commit to the same path and ref at the same time never
\* overwrite each other undetected: every successful write carried the hash
\* current when the store applied it (none when the file was absent), both
\* commitOne calls return ok:true within their 3 attempts, and the store ends
\* with the content of the later successful write (v3.5.1, v3.5.6).
C32_ConcurrentCommits ==
    variant \in RaceVariants =>
        /\ \A i \in 1..Len(Applied) : Applied[i].shaSent = Applied[i].current
        /\ \A r \in Racers : race.run[r].attempt <= Tries
        /\ \A r \in Racers : race.run[r].pc = "done" => race.run[r].ok = "true"
        /\ (\A r \in Racers : race.run[r].pc = "done") =>
               /\ Len(Applied) = 2
               /\ race.entry = StoredFile(RaceBody(Applied[2].run))

\* C33: every write attempt of commitOne, retries included, directly follows
\* a hash lookup made for the same file in the same attempt and passes
\* exactly the hash that lookup returned, none when it returned null
\* (v3.5.1, v3.5.6, v3.5.9).
C33_FreshHashPerWrite ==
    variant \in {"v3.5.1", "v3.5.6", "v3.5.9"} =>
        /\ \A k \in 1..Len(putLog) : putLog[k].shaSent = putLog[k].shaRead
        /\ \A i \in 1..Len(callLog) :
               callLog[i].kind = "write" =>
                   /\ i > 1
                   /\ callLog[i - 1].kind \in {"read", "read_failed"}
                   /\ callLog[i - 1].file = callLog[i].file

\* the gate request being handled was forwarded to the integrator
Proceeded == Len(fwds) >= 1 /\ fwds[1].to = "/run/integrator"

\* C34: the gate proceeds (forwards to integrator and supervisor) only if a
\* tester result and a quality result are both present in its input and both
\* report pass; a missing result counts as a failing verdict (v3.5.1, v3.5.6).
C34_ProceedOnlyOnTwoPasses ==
    (variant \in {"v3.5.1", "v3.5.6"} /\ Proceeded) =>
        /\ req.tester.def /\ req.tester.ok = "true" /\ req.tester.result = "passed"
        /\ req.quality.def /\ req.quality.ok = "true" /\ req.quality.status = "pass"

\* the architect or the coder was sent a request without owner or repo
LacksOwnerRepo ==
    inbound.stage \in {"architect", "coder"} /\ (inbound.owner = "" \/ inbound.repo = "")

\* no generator call, no store read, write or delete, no forward to a stage
NoSideEffect ==
    /\ gen = NoGen
    /\ inbound.effects = <<>>
    /\ callLog = <<>> /\ putLog = <<>> /\ attempts = <<>>
    /\ cssCleanup = NoCleanup(AbsentFile)
    /\ \A p \in Paths : store[p] = AbsentFile
    /\ fwds = <<>>
    /\ trail = <<>>

\* C35: a rejected request has no side effects: a request to the architect
\* or the coder without owner or repo (v3.5.1, v3.5.6), and a request to the
\* gate without an orchestration (v3.5.1), is answered ok:false and makes no
\* generator call, no store read, write or delete, and no forward.
C35_RejectedHasNoSideEffects ==
    variant \in RejectVariants =>
        /\ (LacksOwnerRepo /\ inbound.handled) => (inbound.ok = "false" /\ NoSideEffect)
        /\ (variant = "v3.5.1" /\ inbound.stage = "gate" /\ pc = "done" /\ ~req.hasOrch) =>
               /\ resp.ok = "false"
               /\ resp.code = 400
               /\ NoSideEffect

\* the coder answered 400 to a request that names no repository
C35_Witness ==
    /\ variant \in RejectVariants
    /\ inbound.stage = "coder"
    /\ inbound.handled
    /\ inbound.repo = ""
    /\ coderResp.code = 400

\* the current file's outcome is recorded and says ok:false
FinalAttemptFailed ==
    /\ idx >= 1
    /\ Len(results) = idx
    /\ ~results[idx].ok
    /\ putLog # <<>>

\* C36: the retry backoff is base delay x attempt number: after failed
\* attempt k commitOne waits 400 x k ms before attempt k+1 (400 ms, then
\* 800 ms for 3 tries), and commitOne waits no more after its final failed
\* attempt; what follows it is at most the batch's pacing (v3.5.1, v3.5.6).
C36_BackoffIsBaseTimesAttempt ==
    (variant \in {"v3.5.1", "v3.5.6"} /\ idx >= 1 /\ attempt >= 1) =>
        /\ attempt <= Tries
        /\ Len(slept) >= attempt - 1
        /\ \A k \in 1..(attempt - 1) : slept[k] = BackoffBase * k
        /\ Len(slept) <= attempt
        /\ FinalAttemptFailed =>
               SubSeq(slept, attempt, Len(slept)) =
                   (IF variant = "v3.5.1" THEN <<Pacing>> ELSE <<>>)

\* a file failed three times: 400 ms and 800 ms were waited, in that order
C36_Witness ==
    /\ variant \in {"v3.5.1", "v3.5.6"}
    /\ FinalAttemptFailed
    /\ attempt = Tries
    /\ SubSeq(slept, 1, 2) = <<400, 800>>

\* request r was accepted by the architect and its chain has ended
ChainEnded(r) ==
    /\ Len(chain[r].invoked) >= 2 \/ chain[r].failedAt # "none"
    /\ chain[r].stack = <<>>

\* the stages of request r that answered, in the order they answered
Answered(r) == [i \in 1..Len(chain[r].responded) |-> chain[r].responded[i].stage]

\* the reverse of a sequence
Reverse(q) == [i \in 1..Len(q) |-> q[Len(q) + 1 - i]]

\* C37: in the auto-chain one architect request invokes the stages in the
\* order architect, coder, tester, quality, integrator, supervisor, each
\* once; a stage responds only after its downstream stage has responded;
\* when the chain has ended either all six stages were invoked or a forward
\* failed and the chain ended at the stage that made it; and every stage of
\* the chain responded with ok:true.
C37_AutoChainOrder ==
    variant = "auto-chain" =>
        \A r \in ChainRuns :
            /\ IsPrefix(chain[r].invoked, ChainOrder)
            /\ \E k \in 0..Len(chain[r].invoked) :
                   Answered(r) = Reverse(SubSeq(chain[r].invoked, k + 1, Len(chain[r].invoked)))
            /\ ChainEnded(r) =>
                   /\ \/ chain[r].invoked = ChainOrder
                      \/ /\ chain[r].failedAt # "none"
                         /\ chain[r].invoked[Len(chain[r].invoked)] = chain[r].failedAt
                   /\ Len(chain[r].responded) = Len(chain[r].invoked)
                   /\ \A i \in 1..Len(chain[r].responded) : chain[r].responded[i].ok = "true"

\* the write that createOrUpdateFile made last, and whether a write failed
LastWrite == cuf.writes[Len(cuf.writes)]
WriteFailed(w) == w.kind # "ok"

\* the hash lookup made last
LastLookup == cuf.lookups[Len(cuf.lookups)]

\* C38: createOrUpdateFile with main-fallback writes to the requested branch
\* first and to main at most once more, and only when the first write failed
\* because the branch was not found and the requested branch is not main; on
\* success the returned branch is the ref written and created / updated
\* reflect the hash lookup made on that ref; any other failure of the first
\* write, and a failure of the fallback write, is raised to the caller.
C38_MainFallback ==
    variant = "n8n" =>
        /\ Len(cuf.writes) <= 2
        /\ Len(cuf.writes) >= 1 => cuf.writes[1].ref = cuf.branch
        /\ Len(cuf.writes) = 2 =>
               /\ cuf.writes[2].ref = "main"
               /\ cuf.writes[1].kind = "branch_not_found"
               /\ cuf.branch # "main"
        /\ cuf.pc \in {"fb_lookup", "fb_put"} =>
               /\ cuf.writes[1].kind = "branch_not_found"
               /\ cuf.branch # "main"
        /\ cuf.pc = "returned" =>
               /\ ~WriteFailed(LastWrite)
               /\ cuf.result.branch = LastWrite.ref
               /\ LastLookup.ref = LastWrite.ref
               /\ cuf.result.created = (IF LastLookup.sha = Null THEN "true" ELSE "false")
               /\ cuf.result.updated = (IF LastLookup.sha = Null THEN "false" ELSE "true")
        /\ (Len(cuf.writes) = 1 /\ WriteFailed(cuf.writes[1])
              /\ ~(cuf.writes[1].kind = "branch_not_found" /\ cuf.branch # "main")) =>
               cuf.pc = "raised"
        /\ (Len(cuf.writes) = 2 /\ WriteFailed(cuf.writes[2])) => cuf.pc = "raised"

====
